---- MODULE Spec2Model ----
(***************************************************************************)
(* describe-kun: the Slack event pipeline.                                 *)
(*                                                                         *)
(* Event Ingress (SlackHandler.HandleEvent), the Mention Dispatcher        *)
(* (handleAppMention, handleNewMention, handleThreadMention), the Thread   *)
(* Context Aggregator (getThreadContext), the Progress Reporter            *)
(* (ProgressUpdater.UpdateProgress), the URL extractor (extractURLs) and   *)
(* the application core (App.ProcessURLWithProgress,                       *)
(* App.ProcessThreadMentionWithProgress, App.buildThreadPrompt).           *)
(*                                                                         *)
(* Strings are sequences of tokens: a token is one character of a text the *)
(* code scans (an event text, a URL), or one literal of a format string.   *)
(* fmt.Sprintf and strings.Join are concatenations of such sequences.      *)
(***************************************************************************)
EXTENDS Integers, Sequences, FiniteSets, TLC

VARIABLES
    req,      \* req[r]: the inbound HTTP request r as it arrives
    hpc,      \* hpc[r]: position of HandleEvent for request r
    resp,     \* resp[r]: what HandleEvent wrote to the http.ResponseWriter
    task,     \* task[r]: the goroutine `go h.handleAppMention(ev)` of request r
    calls,    \* calls[r]: collaborator calls made for request r, in order
    slack,    \* the messages the bot posted to Slack, by message timestamp
    thread,   \* the message texts of the mention's thread, oldest first
    stale,    \* stale[r]: how many UpdateMessage calls of r failed in a row
    browserCtx \* ChromeDPFetcher.browserCtx: "live", or "canceled" after Close

vars == <<req, hpc, resp, task, calls, slack, thread, stale, browserCtx>>

----------------------------------------------------------------------------
(* Bounds of the model *)

\* the text of a mention has at most MaxURLs URLs
MaxURLs == 2
\* a thread history has at most MaxReplies messages
MaxReplies == 1
\* at most MaxStale calls of UpdateMessage fail in a row
MaxStale == 1

----------------------------------------------------------------------------
(* Strings *)

Str(tok) == <<tok>>

\* strings.Join(elems, sep)
RECURSIVE Join(_, _)
Join(elems, sep) ==
    IF elems = <<>> THEN <<>>
    ELSE IF Len(elems) = 1 THEN elems[1]
    ELSE elems[1] \o sep \o Join(Tail(elems), sep)

HasPrefixAt(t, i, p) ==
    /\ i + Len(p) - 1 <= Len(t)
    /\ \A k \in 1..Len(p) : t[i + k - 1] = p[k]

\* strings.Contains(t, p)
Contains(t, p) == \E i \in 1..(Len(t) + 1) : HasPrefixAt(t, i, p)

HttpPrefix == <<"h", "t", "t", "p", ":", "/", "/">>
HttpsPrefix == <<"h", "t", "t", "p", "s", ":", "/", "/">>
WwwPrefix == <<"w", "w", "w", ".">>

\* the characters the class [^\s<>"] excludes
IsDelim(c) == c \in {" ", "\t", "\n", "\r", "\f", "<", ">", "\""}

\* last index of the longest run of non-delimiters starting at j (j-1: none)
RECURSIVE RunEnd(_, _)
RunEnd(t, j) ==
    IF j > Len(t) \/ IsDelim(t[j]) THEN j - 1 ELSE RunEnd(t, j + 1)

\* end of the match of  https?://[^\s<>"]+|www\.[^\s<>"]+  starting at i, 0: none
MatchEnd(t, i) ==
    LET after(p) == IF HasPrefixAt(t, i, p) /\ RunEnd(t, i + Len(p)) >= i + Len(p)
                    THEN RunEnd(t, i + Len(p)) ELSE 0
    IN  IF after(HttpsPrefix) > 0 THEN after(HttpsPrefix)
        ELSE IF after(HttpPrefix) > 0 THEN after(HttpPrefix)
        ELSE after(WwwPrefix)

RECURSIVE FindAllFrom_overlapping(_, _)
FindAllFrom_overlapping(t, i) ==
    IF i > Len(t) THEN <<>>
    ELSE LET e == MatchEnd(t, i)
         IN  IF e > 0 THEN <<SubSeq(t, i, e)>> \o FindAllFrom_overlapping(t, i + 1)
             ELSE FindAllFrom_overlapping(t, i + 1)

RECURSIVE FindAllFrom(_, _)
FindAllFrom(t, i) ==
    IF i > Len(t) THEN <<>>
    ELSE LET e == MatchEnd(t, i)
         IN  IF e > 0 THEN <<SubSeq(t, i, e)>> \o FindAllFrom(t, e + 1)
             ELSE FindAllFrom(t, i + 1)

RECURSIVE FindAllFrom_once(_, _, _)
FindAllFrom_once(t, i, seen) ==
    IF i > Len(t) THEN <<>>
    ELSE LET e == MatchEnd(t, i)
         IN  IF e = 0 THEN FindAllFrom_once(t, i + 1, seen)
             ELSE IF SubSeq(t, i, e) \in seen THEN FindAllFrom_once(t, e + 1, seen)
             ELSE <<SubSeq(t, i, e)>> \o FindAllFrom_once(t, e + 1, seen \cup {SubSeq(t, i, e)})

extractURLs_once(text) == FindAllFrom_once(text, 1, {})

\* extractURLs: urlRegex.FindAllString(text, -1)
extractURLs(text) == FindAllFrom(text, 1)

----------------------------------------------------------------------------
(* Inputs *)

UrlA == <<"h", "t", "t", "p", ":", "/", "/", "a">>
UrlB == <<"w", "w", "w", ".", "b">>
\* the mention of the bot that starts the text of an app_mention event
BotMention == <<"<", "@", "U", "1", ">">>
URLPool == {UrlA, UrlB}

\* the sequences of up to n elements of S
SeqsUpTo(S, n) == UNION {[1..k -> S] : k \in 0..n}

\* " " + w, for each word w of ws in turn
RECURSIVE Spaced(_)
Spaced(ws) == IF ws = <<>> THEN <<>> ELSE Str(" ") \o Head(ws) \o Spaced(Tail(ws))

\* the texts of app_mention events: the bot's mention, then up to MaxURLs URLs
MentionTexts == {BotMention \o Spaced(us) : us \in SeqsUpTo(URLPool, MaxURLs)}

\* event.TimeStamp of a mention, and the root timestamp of the thread it may be in
EventTS == <<"1700000000.000200">>
ThreadRootTS == <<"1700000000.000100">>
ThreadTimeStamps == {<<>>, ThreadRootTS}

Challenges == {<<"abc123">>, <<>>}

NoPayload ==
    [wellFormed |-> FALSE, type |-> "", inner |-> "", challenge |-> <<>>,
     text |-> <<>>, threadTS |-> <<>>]

\* {"type":"url_verification","challenge":c}
Handshake(c) ==
    [NoPayload EXCEPT !.wellFormed = TRUE, !.type = "url_verification", !.challenge = c]

\* {"type":"event_callback","event":{"type":"app_mention","text":..,"thread_ts":..}}
Mention(text, tts) ==
    [NoPayload EXCEPT !.wellFormed = TRUE, !.type = "event_callback",
                      !.inner = "app_mention", !.text = text, !.threadTS = tts]

\* a callback event of another inner type, and an event of another outer type
OtherCallback ==
    [NoPayload EXCEPT !.wellFormed = TRUE, !.type = "event_callback", !.inner = "message"]
OtherType == [NoPayload EXCEPT !.wellFormed = TRUE, !.type = "app_rate_limited"]

Payloads ==
    {NoPayload, OtherCallback, OtherType}
        \cup {Handshake(c) : c \in Challenges}
        \cup {Mention(t, tts) : t \in MentionTexts, tts \in ThreadTimeStamps}

\* the X-Slack-Signature / X-Slack-Request-Timestamp headers of a request
HeaderStates == {"ok", "missing", "expired"}
\* the HMAC of the body under the signing secret against the signature header
SignatureStates == {"match", "mismatch"}

Requests ==
    [hdr : HeaderStates, readOK : BOOLEAN, sig : SignatureStates, payload : Payloads]

Reqs == {"r1"}

\* the texts of the messages of a thread
ThreadTexts == {UrlA, UrlB \o Str(" ") \o UrlA}

\* the histories of a thread: the root message and its replies
Histories == UNION {[1..n -> ThreadTexts] : n \in 1..MaxReplies}

----------------------------------------------------------------------------
(* Collaborators: the http.ResponseWriter, Slack, the Fetcher, the LLM *)

StatusOK == 200
StatusUnauthorized == 401
StatusInternalServerError == 500

NoResponse == [status |-> 0, ctype |-> "", body |-> <<>>]

\* http.ResponseWriter.WriteHeader: the first status written stands
WriteHeader(w, code) == IF w.status = 0 THEN [w EXCEPT !.status = code] ELSE w

Write_headerOnly(w, b) == WriteHeader(w, StatusOK)

\* http.ResponseWriter.Write: writes status 200 first when none was written
Write(w, b) == [WriteHeader(w, StatusOK) EXCEPT !.body = @ \o b]

\* the server completing the response when the handler returns
FinishRequest(w) == WriteHeader(w, StatusOK)

NoErr == <<>>

Errorf_v(prefix, err) == <<prefix, ToString(err)>>

\* fmt.Errorf(prefix + "%w", err)
Errorf(prefix, err) == Str(prefix) \o err

FetchErrors == {Str("fetch failed")}
\* errors.Is(err, context.Canceled): chromedp.Run on a canceled run context
Canceled(url) == Str("chromedp context cancelled or timed out for ") \o url \o Str(": context canceled")
LLMErrors == {Str("llm failed")}
LLMResults == {Str("llm response")}

\* the page text the Fetcher extracts for a URL when it succeeds with content
PageOf(url) == Str("text of ") \o url

\* Fetcher.Fetch(ctx, url): content, empty content, or an error; the run
\* context is derived from browserCtx, and once that is canceled every run
\* ends with context.Canceled
FetchOutcomes(url) ==
    IF browserCtx = "canceled"
    THEN {[content |-> <<>>, err |-> Canceled(url)]}
    ELSE {[content |-> PageOf(url), err |-> NoErr], [content |-> <<>>, err |-> NoErr]}
            \cup {[content |-> <<>>, err |-> e] : e \in FetchErrors}

CtxDone_request(r) == hpc[r] = "returned"

\* context.Background(), the context the handlers of mention r pass to every
\* fetch: it is never done
CtxDone(r) == FALSE

\* Fetch(ctx, url) as called for mention r: the run is cancelled once ctx is done
Fetch(r, url) ==
    IF CtxDone(r) THEN {[content |-> <<>>, err |-> Canceled(url)]} ELSE FetchOutcomes(url)

\* LLM.ProcessContent / LLM.ProcessContentWithMode: a response or an error
LLMOutcomes ==
    {[val |-> s, err |-> NoErr] : s \in LLMResults}
        \cup {[val |-> <<>>, err |-> e] : e \in LLMErrors}

NoCall ==
    [op |-> "", anchor |-> <<>>, ts |-> 0, text |-> <<>>, url |-> <<>>,
     content |-> <<>>, userPrompt |-> <<>>, mode |-> "", val |-> <<>>, err |-> NoErr]

Record(r, call) == calls' = [calls EXCEPT ![r] = Append(@, call)]

\* SlackClient.PostMessage(channel, text, MsgOptionTS(anchor)); ts: the new message
PostMessage(r, anchor, text, ok) ==
    /\ slack' = IF ok THEN Append(slack, [anchor |-> anchor, text |-> text, by |-> r])
                 ELSE slack
    /\ Record(r, [NoCall EXCEPT !.op = "PostMessage", !.anchor = anchor, !.text = text,
                                !.ts = IF ok THEN Len(slack) + 1 ELSE 0,
                                !.err = IF ok THEN NoErr ELSE Str("post failed")])

UpdateProgress_retry(r, message) ==
    \E ok \in BOOLEAN :
        /\ ok \/ stale[r] < MaxStale
        /\ stale' = [stale EXCEPT ![r] = IF ok THEN 0 ELSE @ + 1]
        /\ slack' = IF ok THEN [slack EXCEPT ![task[r].ts].text = message] ELSE slack
        /\ LET c == [NoCall EXCEPT !.op = "UpdateMessage", !.ts = task[r].ts, !.text = message]
           IN  calls' = [calls EXCEPT ![r] = IF ok THEN Append(@, c) ELSE Append(Append(@, c), c)]

UpdateProgress_latestMessage(r, message) ==
    \E ok \in BOOLEAN :
        /\ ok \/ stale[r] < MaxStale
        /\ stale' = [stale EXCEPT ![r] = IF ok THEN 0 ELSE @ + 1]
        /\ slack' = IF ok THEN [slack EXCEPT ![Len(slack)].text = message] ELSE slack
        /\ Record(r, [NoCall EXCEPT !.op = "UpdateMessage", !.ts = Len(slack),
                                    !.text = message])

UpdateProgress_repost(r, message) == stale' = stale /\ PostMessage(r, EventTS, message, TRUE)

\* ProgressUpdater.UpdateProgress(message): UpdateMessage; an error is only logged
UpdateProgress(r, message) ==
    \E ok \in BOOLEAN :
        /\ ok \/ stale[r] < MaxStale
        /\ stale' = [stale EXCEPT ![r] = IF ok THEN 0 ELSE @ + 1]
        /\ slack' = IF ok THEN [slack EXCEPT ![task[r].ts].text = message] ELSE slack
        /\ Record(r, [NoCall EXCEPT !.op = "UpdateMessage", !.ts = task[r].ts,
                                    !.text = message])

----------------------------------------------------------------------------
(* State *)

EmptyMap == [u \in {} |-> <<>>]

IdleTask ==
    [pc |-> "idle", path |-> "", urls |-> <<>>, i |-> 0, ts |-> 0,
     content |-> <<>>, err |-> NoErr, allSummaries |-> <<>>,
     Messages |-> <<>>, URLs |-> <<>>, URLContents |-> EmptyMap,
     latestURLContents |-> EmptyMap, response |-> <<>>,
     ctx |-> "", userPrompt |-> <<>>]

Init ==
    /\ req \in [Reqs -> Requests]
    /\ hpc = [r \in Reqs |-> "received"]
    /\ resp = [r \in Reqs |-> NoResponse]
    /\ task = [r \in Reqs |-> IdleTask]
    /\ calls = [r \in Reqs |-> <<>>]
    /\ slack = <<>>
    /\ browserCtx = "live"
    /\ stale = [r \in Reqs |-> 0]
    /\ thread \in (IF \E r \in Reqs : req[r].payload.threadTS # <<>>
                   THEN Histories ELSE {<<>>})

----------------------------------------------------------------------------
(* Event Ingress: SlackHandler.HandleEvent *)

\* slack.NewSecretsVerifier(r.Header, secret): fails on missing signature or
\* timestamp headers and on a timestamp too far from now
NewSecretsVerifier(q) ==
    IF q.hdr = "missing" THEN Str("missing headers")
    ELSE IF q.hdr = "expired" THEN Str("timestamp is too old")
    ELSE NoErr

Ensure_unchecked(q) == NoErr

\* verifier.Ensure(): the computed HMAC against the signature header
Ensure(q) == IF q.sig = "match" THEN NoErr ELSE Str("signature mismatch")

\* slackevents.ParseEvent(body, OptionNoVerifyToken())
ParseEvent(q) == IF q.payload.wellFormed THEN NoErr ELSE Str("parse error")

IsAppMention_anyCallback(p) == p.type = "event_callback"

\* the type switch on innerEvent.Data: case *slackevents.AppMentionEvent
IsAppMention(p) == p.type = "event_callback" /\ p.inner = "app_mention"

AckMention_missing(w) == w

\* w.WriteHeader(http.StatusOK): the acknowledgment of an app_mention event
AckMention(w) == WriteHeader(w, StatusOK)

\* HandleEvent answers and returns
Respond(r, w) ==
    /\ resp' = [resp EXCEPT ![r] = FinishRequest(w)]
    /\ hpc' = [hpc EXCEPT ![r] = "returned"]

\* HandleEvent from its entry to its return or, for an app_mention, up to and
\* including the acknowledgment w.WriteHeader(http.StatusOK) of the mention
HandleEvent(r) ==
    /\ hpc[r] = "received"
    /\ LET q == req[r]
           w == resp[r]
       IN  IF NewSecretsVerifier(q) # NoErr
           THEN Respond(r, WriteHeader(w, StatusInternalServerError))
           ELSE IF ~q.readOK
           THEN Respond(r, WriteHeader(w, StatusInternalServerError))
           ELSE IF Ensure(q) # NoErr
           THEN Respond(r, WriteHeader(w, StatusUnauthorized))
           ELSE IF ParseEvent(q) # NoErr
           THEN Respond(r, WriteHeader(w, StatusInternalServerError))
           ELSE IF q.payload.type = "url_verification"
           THEN Respond(r, Write([w EXCEPT !.ctype = "text/plain"], q.payload.challenge))
           ELSE IF IsAppMention(q.payload)
           THEN /\ resp' = [resp EXCEPT ![r] = AckMention(w)]
                /\ hpc' = [hpc EXCEPT ![r] = "acked"]
           ELSE Respond(r, WriteHeader(w, StatusOK))
    /\ UNCHANGED <<browserCtx, req, task, calls, slack, thread, stale>>

\* go h.handleAppMention(ev)
GoHandleAppMention(r) ==
    /\ hpc[r] = "acked"
    /\ hpc' = [hpc EXCEPT ![r] = "spawned"]
    /\ task' = [task EXCEPT ![r].pc = "start"]
    /\ UNCHANGED <<browserCtx, req, resp, calls, slack, thread, stale>>

HandleEventReturn_joins(r) ==
    /\ hpc[r] = "spawned"
    /\ task[r].pc = "done"
    /\ Respond(r, resp[r])
    /\ UNCHANGED <<browserCtx, req, task, calls, slack, thread, stale>>

\* return // Important: Return after starting goroutine
HandleEventReturn(r) ==
    /\ hpc[r] = "spawned"
    /\ Respond(r, resp[r])
    /\ UNCHANGED <<browserCtx, req, task, calls, slack, thread, stale>>

----------------------------------------------------------------------------
(* Mention Dispatcher: the New path *)

LoadingMsg == Str(":loading:")
NoURLsMsg == Str("No URLs found in your message. Please include a URL for me to summarize.")
ProcessingMsg_zeroBased(i, n, url) ==
    <<":loading: Processing URL ", ToString(i - 1), "/", ToString(n), ": ">> \o url

\* fmt.Sprintf(":loading: Processing URL %d/%d: %s", i+1, len(urls), url)
ProcessingMsg(i, n, url) ==
    <<":loading: Processing URL ", ToString(i), "/", ToString(n), ": ">> \o url
FetchingMsg(url) == Str(":loading: Fetching content from ") \o url \o Str("...")
GeneratingMsg(url) == Str(":loading: Generating summary for ") \o url \o Str("...")
ErrorSummarizingMsg(url, err) == Str("Error summarizing ") \o url \o Str(": ") \o err
SummaryFor(url, summary) == Str("Summary for ") \o url \o Str(":\n") \o summary
SummarySep == Str("\n\n---\n\n")
NoSummariesMsg == Str("No summaries could be generated.")

handleAppMention_inverted(ev) == IF ev.threadTS = <<>> THEN "thread" ELSE "new"

\* handleAppMention: the path a mention takes
handleAppMention(ev) == IF ev.threadTS # <<>> THEN "thread" ELSE "new"

NoURLsFound_never(urls) == FALSE

\* if len(urls) == 0
NoURLsFound(urls) == Len(urls) = 0

Ev(r) == req[r].payload
Url(r) == task[r].urls[task[r].i]

PostFailed_ignored(ok) == FALSE

\* if postErr != nil { log.Printf(...); return }
PostFailed(ok) == ~ok

\* handleNewMention from its entry to the end of its first PostMessage
handleNewMention(r) ==
    /\ task[r].pc = "start"
    /\ handleAppMention(Ev(r)) = "new"
    /\ LET urls == extractURLs(Ev(r).text)
       IN  \E ok \in BOOLEAN :
            IF NoURLsFound(urls)
            THEN /\ PostMessage(r, EventTS, NoURLsMsg, ok)
                 /\ task' = [task EXCEPT ![r].pc = "done", ![r].path = "new"]
            ELSE /\ PostMessage(r, EventTS, LoadingMsg, ok)
                 /\ task' = [task EXCEPT ![r].pc = IF PostFailed(ok) THEN "done"
                                                   ELSE IF Len(urls) = 0 THEN "new_final"
                                                   ELSE "new_loop",
                                         ![r].path = "new",
                                         ![r].urls = urls,
                                         ![r].i = 1,
                                         ![r].ts = IF ok THEN Len(slack) + 1 ELSE 0]
    /\ UNCHANGED <<browserCtx, req, hpc, resp, thread, stale>>

\* the loop head: progressUpdater.UpdateProgress("Processing URL i/n")
NewProgress(r) ==
    /\ task[r].pc = "new_loop"
    /\ UpdateProgress(r, ProcessingMsg(task[r].i, Len(task[r].urls), Url(r)))
    /\ task' = [task EXCEPT ![r].pc = "puwp_fetching"]
    /\ UNCHANGED <<browserCtx, req, hpc, resp, thread>>

\* ProcessURLWithProgress: progressCallback("Fetching content from ...")
ProcessURLFetching(r) ==
    /\ task[r].pc = "puwp_fetching"
    /\ UpdateProgress(r, FetchingMsg(Url(r)))
    /\ task' = [task EXCEPT ![r].pc = "puwp_fetch"]
    /\ UNCHANGED <<browserCtx, req, hpc, resp, thread>>

Fetched_skipSummary(t, content) ==
    [t EXCEPT !.i = @ + 1, !.pc = IF t.i + 1 > Len(t.urls) THEN "new_final" ELSE "new_loop"]

\* ProcessURLWithProgress after a fetch that gave content: on to the summary
Fetched(t, content) == [t EXCEPT !.pc = "puwp_generating", !.content = content]

\* ProcessURLWithProgress: a.fetcher.Fetch and the two checks of its result
ProcessURLFetch(r) ==
    /\ task[r].pc = "puwp_fetch"
    /\ \E out \in Fetch(r, Url(r)) :
        /\ Record(r, [NoCall EXCEPT !.op = "Fetch", !.url = Url(r),
                                    !.val = out.content, !.err = out.err])
        /\ IF out.err # NoErr
           THEN task' = [task EXCEPT ![r].pc = "new_error",
                             ![r].err = Errorf("failed to fetch content: ", out.err)]
           ELSE IF out.content = <<>>
           THEN task' = [task EXCEPT ![r].pc = "new_error",
                             ![r].err = Str("fetched content is empty for url: ") \o Url(r)]
           ELSE task' = [task EXCEPT ![r] = Fetched(@, out.content)]
    /\ UNCHANGED <<browserCtx, req, hpc, resp, slack, thread, stale>>

\* ProcessURLWithProgress: progressCallback("Generating summary for ...")
ProcessURLGenerating(r) ==
    /\ task[r].pc = "puwp_generating"
    /\ UpdateProgress(r, GeneratingMsg(Url(r)))
    /\ task' = [task EXCEPT ![r].pc = "puwp_llm"]
    /\ UNCHANGED <<browserCtx, req, hpc, resp, thread>>

\* the first position after t.i whose URL has not been processed, or Len + 1
NextURL_skipRepeated(t) ==
    LET fresh == {j \in (t.i + 1)..Len(t.urls) : \A m \in 1..t.i : t.urls[m] # t.urls[j]}
        next == IF fresh = {} THEN Len(t.urls) + 1
                ELSE CHOOSE j \in fresh : \A k \in fresh : j <= k
    IN  [t EXCEPT !.i = next, !.content = <<>>, !.err = NoErr,
                  !.pc = IF next > Len(t.urls) THEN "new_final" ELSE "new_loop"]

\* the loop of handleNewMention moving to its next URL, or to the final report
NextURL(t) ==
    [t EXCEPT !.i = @ + 1, !.content = <<>>, !.err = NoErr,
              !.pc = IF t.i + 1 > Len(t.urls) THEN "new_final" ELSE "new_loop"]

\* ProcessURLWithProgress: a.llm.ProcessContent(ctx, content, userPrompt), and
\* on success the append to allSummaries in handleNewMention
ProcessURLProcessContent(r) ==
    /\ task[r].pc = "puwp_llm"
    /\ \E out \in LLMOutcomes :
        /\ Record(r, [NoCall EXCEPT !.op = "ProcessContent", !.content = task[r].content,
                                    !.userPrompt = <<>>, !.mode = "summary",
                                    !.val = out.val, !.err = out.err])
        /\ IF out.err # NoErr
           THEN task' = [task EXCEPT ![r].pc = "new_error",
                             ![r].err = Errorf("failed to process content: ", out.err)]
           ELSE task' = [task EXCEPT ![r] =
                             NextURL([@ EXCEPT !.allSummaries =
                                          Append(@, SummaryFor(Url(r), out.val))])]
    /\ UNCHANGED <<browserCtx, req, hpc, resp, slack, thread, stale>>

AfterError_return(t) == [t EXCEPT !.pc = "done"]

\* continue // after the error report of a URL
AfterError(t) == NextURL(t)

\* handleNewMention: err != nil: UpdateProgress("Error summarizing ..."); continue
NewError(r) ==
    /\ task[r].pc = "new_error"
    /\ UpdateProgress(r, ErrorSummarizingMsg(Url(r), task[r].err))
    /\ task' = [task EXCEPT ![r] = AfterError(@)]
    /\ UNCHANGED <<browserCtx, req, hpc, resp, thread>>

FinalReport_joinAlways(allSummaries) == Join(allSummaries, SummarySep)

\* if len(allSummaries) > 0 { strings.Join(...) } else { "No summaries ..." }
FinalReport(allSummaries) ==
    IF Len(allSummaries) > 0 THEN Join(allSummaries, SummarySep) ELSE NoSummariesMsg

\* handleNewMention: the final result, by updating the loading message
NewFinal(r) ==
    /\ task[r].pc = "new_final"
    /\ UpdateProgress(r, FinalReport(task[r].allSummaries))
    /\ task' = [task EXCEPT ![r].pc = "done"]
    /\ UNCHANGED <<browserCtx, req, hpc, resp, thread>>

----------------------------------------------------------------------------
(* Thread Context Aggregator: getThreadContext *)

CollectURLs_keepAll(urls, seen) == urls

\* the URLs of the messages, each once, in first-seen order (the allURLs map)
RECURSIVE CollectURLs(_, _)
CollectURLs(urls, seen) ==
    IF urls = <<>> THEN <<>>
    ELSE IF Head(urls) \in seen THEN CollectURLs(Tail(urls), seen)
    ELSE <<Head(urls)>> \o CollectURLs(Tail(urls), seen \cup {Head(urls)})

\* the URLs of every message, in message order
RECURSIVE AllURLs(_)
AllURLs(messages) ==
    IF messages = <<>> THEN <<>>
    ELSE extractURLs(Head(messages)) \o AllURLs(Tail(messages))

Put_ifContent(m, k, v) == IF v = <<>> THEN m ELSE [x \in DOMAIN m \cup {k} |-> IF x = k THEN v ELSE m[x]]

\* m[k] = v
Put(m, k, v) == [x \in DOMAIN m \cup {k} |-> IF x = k THEN v ELSE m[x]]

RepliesFailed_ignored(ok) == FALSE

\* replies, _, _, err := GetConversationReplies(...); if err != nil
RepliesFailed(ok) == ~ok

\* getThreadContext: GetConversationReplies and the collection of messages and URLs
getThreadContextReplies(r) ==
    /\ task[r].pc = "gtc_replies"
    /\ \E ok \in BOOLEAN :
        /\ Record(r, [NoCall EXCEPT !.op = "GetConversationReplies",
                                    !.anchor = Ev(r).threadTS,
                                    !.err = IF ok THEN NoErr ELSE Str("replies failed")])
        /\ IF RepliesFailed(ok)
           THEN task' = [task EXCEPT ![r].pc = "thr_ctx_error",
                             ![r].err = Errorf("failed to get conversation replies: ",
                                               Str("replies failed"))]
           ELSE LET urls == CollectURLs(AllURLs(thread), {})
                IN  task' = [task EXCEPT ![r].pc = IF urls = <<>> THEN "thr_processing"
                                                   ELSE "gtc_fetch",
                                         ![r].Messages = thread,
                                         ![r].URLs = urls,
                                         ![r].i = 1]
    /\ UNCHANGED <<browserCtx, req, hpc, resp, slack, thread, stale>>

ContextEntry_raw(out) == out.content

\* what getThreadContext stores for a URL: the content, or on an error
\* fmt.Sprintf("Error fetching content: %v", err)
ContextEntry(out) ==
    IF out.err # NoErr THEN Str("Error fetching content: ") \o out.err ELSE out.content

\* getThreadContext: fetcher.Fetch for one URL of the thread
getThreadContextFetch(r) ==
    /\ task[r].pc = "gtc_fetch"
    /\ LET url == task[r].URLs[task[r].i]
       IN  \E out \in Fetch(r, url) :
            /\ Record(r, [NoCall EXCEPT !.op = "Fetch", !.url = url,
                                        !.val = out.content, !.err = out.err])
            /\ task' = [task EXCEPT
                   ![r].URLContents = Put(@, url, ContextEntry(out)),
                   ![r].i = @ + 1,
                   ![r].pc = IF task[r].i + 1 > Len(task[r].URLs) THEN "thr_processing"
                             ELSE "gtc_fetch"]
    /\ UNCHANGED <<browserCtx, req, hpc, resp, slack, thread, stale>>

----------------------------------------------------------------------------
(* Application core: ProcessThreadMentionWithProgress, buildThreadPrompt *)

RECURSIVE PermSeqs(_)
PermSeqs(S) ==
    IF S = {} THEN {<<>>}
    ELSE UNION {{<<x>> \o p : p \in PermSeqs(S \ {x})} : x \in S}

RECURSIVE MessageLines(_, _)
MessageLines(messages, i) ==
    IF i > Len(messages) THEN <<>>
    ELSE <<"Message ", ToString(i), ": ">> \o messages[i] \o Str("\n")
             \o MessageLines(messages, i + 1)

\* the line of three backquotes that opens and closes a content block
CodeFence == Str("[fence]\n")

\* the sections of a URL -> content map, in the order the range loop visits it
RECURSIVE URLSections(_, _)
URLSections(m, order) ==
    IF order = <<>> THEN <<>>
    ELSE Str("\nURL: ") \o Head(order) \o Str("\nContent:\n") \o CodeFence \o m[Head(order)]
             \o Str("\n") \o CodeFence \o URLSections(m, Tail(order))

buildThreadPrompt_historyOnly(Messages, URLContents, latestText, latestURLContents, order, latestOrder) ==
    Str("You are an AI assistant helping with a conversation thread. ")
        \o Str("---\n")
        \o Str("Thread conversation history and URL contents:\n\n")
        \o MessageLines(Messages, 1)
        \o URLSections(URLContents, order)
        \o Str("---\n")
        \o Str("Last user question: ") \o latestText \o Str("\n")

\* buildThreadPrompt; order and latestOrder: the iteration orders of the two maps
buildThreadPrompt(Messages, URLContents, latestText, latestURLContents, order, latestOrder) ==
    Str("You are an AI assistant helping with a conversation thread. ")
        \o Str("---\n")
        \o Str("Thread conversation history and URL contents:\n\n")
        \o MessageLines(Messages, 1)
        \o URLSections(URLContents, order)
        \o Str("---\n")
        \o (IF DOMAIN latestURLContents # {}
            THEN Str("Latest mention URL contents:\n")
                     \o URLSections(latestURLContents, latestOrder) \o Str("---\n")
            ELSE <<>>)
        \o Str("Last user question: ") \o latestText \o Str("\n")

ThreadMode_summary == "summary"

\* the mode argument of ProcessContentWithMode(ctx, prompt, "", "thread")
ThreadMode == "thread"

FetchingNewMsg(i, n, url) ==
    <<":loading: Fetching new URL ", ToString(i), "/", ToString(n), ": ">> \o url
AnalyzingMsg == Str(":loading: Analyzing thread context and generating response...")

\* ProcessThreadMentionWithProgress: progressCallback("Fetching new URL i/n")
ProcessThreadFetching(r) ==
    /\ task[r].pc = "ptm_fetching"
    /\ UpdateProgress(r, FetchingNewMsg(task[r].i, Len(task[r].urls), Url(r)))
    /\ task' = [task EXCEPT ![r].pc = "ptm_fetch"]
    /\ UNCHANGED <<browserCtx, req, hpc, resp, thread>>

LatestFetchFailed_never(out) == FALSE

\* content, err := a.fetcher.Fetch(ctx, url); if err != nil
LatestFetchFailed(out) == out.err # NoErr

\* ProcessThreadMentionWithProgress: a.fetcher.Fetch for one URL of the mention
ProcessThreadFetch(r) ==
    /\ task[r].pc = "ptm_fetch"
    /\ \E out \in Fetch(r, Url(r)) :
        /\ Record(r, [NoCall EXCEPT !.op = "Fetch", !.url = Url(r),
                                    !.val = out.content, !.err = out.err])
        /\ IF LatestFetchFailed(out)
           THEN task' = [task EXCEPT ![r].pc = "thr_error",
                             ![r].err = Str("failed to fetch content for URL ") \o Url(r)
                                            \o Str(": ") \o out.err]
           ELSE task' = [task EXCEPT
                             ![r].latestURLContents = Put(@, Url(r), out.content),
                             ![r].i = @ + 1,
                             ![r].pc = IF task[r].i + 1 > Len(task[r].urls)
                                       THEN "ptm_analyzing" ELSE "ptm_fetching"]
    /\ UNCHANGED <<browserCtx, req, hpc, resp, slack, thread, stale>>

ProcessThreadAnalyzing_needsURLs(r) ==
    /\ task[r].pc = "ptm_analyzing"
    /\ IF task[r].urls = <<>>
       THEN UpdateProgress(r, NoURLsMsg) /\ task' = [task EXCEPT ![r].pc = "done"]
       ELSE UpdateProgress(r, AnalyzingMsg) /\ task' = [task EXCEPT ![r].pc = "ptm_llm"]
    /\ UNCHANGED <<browserCtx, req, hpc, resp, thread>>

\* ProcessThreadMentionWithProgress: progressCallback("Analyzing thread context ...")
ProcessThreadAnalyzing(r) ==
    /\ task[r].pc = "ptm_analyzing"
    /\ UpdateProgress(r, AnalyzingMsg)
    /\ task' = [task EXCEPT ![r].pc = "ptm_llm"]
    /\ UNCHANGED <<browserCtx, req, hpc, resp, thread>>

\* ProcessThreadMentionWithProgress: buildThreadPrompt and
\* a.llm.ProcessContentWithMode(ctx, prompt, "", "thread")
ProcessThreadProcessContent(r) ==
    /\ task[r].pc = "ptm_llm"
    /\ \E order \in PermSeqs(DOMAIN task[r].URLContents),
          latestOrder \in PermSeqs(DOMAIN task[r].latestURLContents),
          out \in LLMOutcomes :
        LET prompt == buildThreadPrompt(task[r].Messages, task[r].URLContents,
                                        Ev(r).text, task[r].latestURLContents,
                                        order, latestOrder)
        IN  /\ Record(r, [NoCall EXCEPT !.op = "ProcessContentWithMode",
                                        !.content = prompt, !.userPrompt = <<>>,
                                        !.mode = ThreadMode,
                                        !.val = out.val, !.err = out.err])
            /\ IF out.err # NoErr
               THEN task' = [task EXCEPT ![r].pc = "thr_error",
                                 ![r].err = Errorf("failed to process thread content: ",
                                                   out.err)]
               ELSE task' = [task EXCEPT ![r].pc = "thr_final",
                                         ![r].response = out.val]
    /\ UNCHANGED <<browserCtx, req, hpc, resp, slack, thread, stale>>

----------------------------------------------------------------------------
(* Mention Dispatcher: the Threaded path *)

GettingContextMsg == Str(":loading: Getting thread context...")
ProcessingThreadMsg == Str(":loading: Processing thread mention...")

\* handleThreadMention from its entry to the end of its PostMessage
handleThreadMention(r) ==
    /\ task[r].pc = "start"
    /\ handleAppMention(Ev(r)) = "thread"
    /\ \E ok \in BOOLEAN :
        /\ PostMessage(r, Ev(r).threadTS, LoadingMsg, ok)
        /\ task' = [task EXCEPT ![r].pc = IF PostFailed(ok) THEN "done" ELSE "thr_getting",
                                ![r].path = "thread",
                                ![r].ts = IF ok THEN Len(slack) + 1 ELSE 0]
    /\ UNCHANGED <<browserCtx, req, hpc, resp, thread, stale>>

\* handleThreadMention: UpdateProgress("Getting thread context...")
ThreadGetting(r) ==
    /\ task[r].pc = "thr_getting"
    /\ UpdateProgress(r, GettingContextMsg)
    /\ task' = [task EXCEPT ![r].pc = "gtc_replies"]
    /\ UNCHANGED <<browserCtx, req, hpc, resp, thread>>

\* handleThreadMention: getThreadContext failed: report the error and return
ThreadContextError(r) ==
    /\ task[r].pc = "thr_ctx_error"
    /\ UpdateProgress(r, Str("Error getting thread context: ") \o task[r].err)
    /\ task' = [task EXCEPT ![r].pc = "done"]
    /\ UNCHANGED <<browserCtx, req, hpc, resp, thread>>

\* handleThreadMention: extractURLs(event.Text), UpdateProgress("Processing ...")
ThreadProcessing(r) ==
    /\ task[r].pc = "thr_processing"
    /\ UpdateProgress(r, ProcessingThreadMsg)
    /\ LET latestMentionURLs == extractURLs(Ev(r).text)
       IN  task' = [task EXCEPT ![r].urls = latestMentionURLs,
                                ![r].i = 1,
                                ![r].pc = IF latestMentionURLs = <<>> THEN "ptm_analyzing"
                                          ELSE "ptm_fetching"]
    /\ UNCHANGED <<browserCtx, req, hpc, resp, thread>>

ThreadError_silent(r) ==
    /\ task[r].pc = "thr_error"
    /\ task' = [task EXCEPT ![r].pc = "done"]
    /\ UNCHANGED <<browserCtx, req, hpc, resp, calls, slack, thread, stale>>

\* handleThreadMention: ProcessThreadMentionWithProgress failed: report, return
ThreadError(r) ==
    /\ task[r].pc = "thr_error"
    /\ UpdateProgress(r, Str("Error processing thread mention: ") \o task[r].err)
    /\ task' = [task EXCEPT ![r].pc = "done"]
    /\ UNCHANGED <<browserCtx, req, hpc, resp, thread>>

\* handleThreadMention: the final response, by updating the loading message
ThreadFinal(r) ==
    /\ task[r].pc = "thr_final"
    /\ UpdateProgress(r, task[r].response)
    /\ task' = [task EXCEPT ![r].pc = "done"]
    /\ UNCHANGED <<browserCtx, req, hpc, resp, thread>>

----------------------------------------------------------------------------
(* Specification *)

Next ==
    \E r \in Reqs :
        \/ HandleEvent(r)
        \/ GoHandleAppMention(r)
        \/ HandleEventReturn(r)
        \/ handleNewMention(r)
        \/ NewProgress(r)
        \/ ProcessURLFetching(r)
        \/ ProcessURLFetch(r)
        \/ ProcessURLGenerating(r)
        \/ ProcessURLProcessContent(r)
        \/ NewError(r)
        \/ NewFinal(r)
        \/ handleThreadMention(r)
        \/ ThreadGetting(r)
        \/ getThreadContextReplies(r)
        \/ getThreadContextFetch(r)
        \/ ThreadContextError(r)
        \/ ThreadProcessing(r)
        \/ ProcessThreadFetching(r)
        \/ ProcessThreadFetch(r)
        \/ ProcessThreadAnalyzing(r)
        \/ ProcessThreadProcessContent(r)
        \/ ThreadError(r)
        \/ ThreadFinal(r)

Spec == Init /\ [][Next]_vars

----------------------------------------------------------------------------
(* The Threaded path alone, over richer thread histories *)

\* a thread history has at most MaxHistory messages in SpecThread
MaxHistory == 2

UrlC == <<"h", "t", "t", "p", "s", ":", "/", "/", "c">>

\* message texts: no URL; one URL; two URLs; a URL twice around a third one
RichThreadTexts ==
    {<<"h", "i">>, UrlA, UrlB \o Str(" ") \o UrlA,
     UrlA \o Str(" ") \o UrlC \o Str(" ") \o UrlA}

RichHistories == UNION {[1..n -> RichThreadTexts] : n \in 1..MaxHistory}

\* a correctly signed mention in a thread, with one URL in its text
ThreadRequests ==
    {[hdr |-> "ok", readOK |-> TRUE, sig |-> "match",
      payload |-> Mention(BotMention \o Str(" ") \o UrlA, ThreadRootTS)]}

InitThread ==
    /\ req \in [Reqs -> ThreadRequests]
    /\ hpc = [r \in Reqs |-> "received"]
    /\ resp = [r \in Reqs |-> NoResponse]
    /\ task = [r \in Reqs |-> IdleTask]
    /\ calls = [r \in Reqs |-> <<>>]
    /\ slack = <<>>
    /\ browserCtx = "live"
    /\ stale = [r \in Reqs |-> 0]
    /\ thread \in RichHistories

NextThread ==
    \E r \in Reqs :
        \/ HandleEvent(r)
        \/ GoHandleAppMention(r)
        \/ HandleEventReturn(r)
        \/ handleThreadMention(r)
        \/ ThreadGetting(r)
        \/ getThreadContextReplies(r)
        \/ getThreadContextFetch(r)
        \/ ThreadContextError(r)
        \/ ThreadProcessing(r)
        \/ ProcessThreadFetching(r)
        \/ ProcessThreadFetch(r)
        \/ ProcessThreadAnalyzing(r)
        \/ ProcessThreadProcessContent(r)
        \/ ThreadError(r)
        \/ ThreadFinal(r)

SpecThread == InitThread /\ [][NextThread]_vars

----------------------------------------------------------------------------
(* Two mentions handled concurrently *)

\* two events Slack delivers at about the same time: each HandleEvent call
\* starts its own goroutine
TwinReqs == {"r1", "r2"}

\* a New mention of one URL, and a mention of another URL inside a thread;
\* the first event is the New mention, the second is either
TwinEvents ==
    {Mention(BotMention \o Str(" ") \o UrlA, <<>>),
     Mention(BotMention \o Str(" ") \o UrlB, ThreadRootTS)}

TwinRequests ==
    {[hdr |-> "ok", readOK |-> TRUE, sig |-> "match", payload |-> p] : p \in TwinEvents}

InitTwin ==
    /\ req \in {q \in [TwinReqs -> TwinRequests] : q["r1"].payload.threadTS = <<>>}
    /\ hpc = [r \in TwinReqs |-> "received"]
    /\ resp = [r \in TwinReqs |-> NoResponse]
    /\ task = [r \in TwinReqs |-> IdleTask]
    /\ calls = [r \in TwinReqs |-> <<>>]
    /\ slack = <<>>
    /\ browserCtx = "live"
    /\ stale = [r \in TwinReqs |-> 0]
    /\ thread = <<UrlA>>

NextTwin ==
    \E r \in TwinReqs :
        \/ HandleEvent(r)
        \/ GoHandleAppMention(r)
        \/ HandleEventReturn(r)
        \/ handleNewMention(r)
        \/ NewProgress(r)
        \/ ProcessURLFetching(r)
        \/ ProcessURLFetch(r)
        \/ ProcessURLGenerating(r)
        \/ ProcessURLProcessContent(r)
        \/ NewError(r)
        \/ NewFinal(r)
        \/ handleThreadMention(r)
        \/ ThreadGetting(r)
        \/ getThreadContextReplies(r)
        \/ getThreadContextFetch(r)
        \/ ThreadContextError(r)
        \/ ThreadProcessing(r)
        \/ ProcessThreadFetching(r)
        \/ ProcessThreadFetch(r)
        \/ ProcessThreadAnalyzing(r)
        \/ ProcessThreadProcessContent(r)
        \/ ThreadError(r)
        \/ ThreadFinal(r)

SpecTwin == InitTwin /\ [][NextTwin]_vars

----------------------------------------------------------------------------
(* The New path alone, with a prompt after the URLs and a browser that may *)
(* be closed while the mention is processed                                *)

\* what a user may write after the URLs of a mention
PromptText == <<" ", "t", "l", "d", "r">>

NewTexts ==
    {BotMention \o Str(" ") \o UrlA \o PromptText,
     BotMention \o Str(" ") \o UrlA \o Str(" ") \o UrlC,
     BotMention \o Str(" ") \o UrlB \o Str(" ") \o UrlA \o PromptText}

NewRequests ==
    {[hdr |-> "ok", readOK |-> TRUE, sig |-> "match", payload |-> Mention(t, <<>>)] :
        t \in NewTexts}

InitNew ==
    /\ req \in [Reqs -> NewRequests]
    /\ hpc = [r \in Reqs |-> "received"]
    /\ resp = [r \in Reqs |-> NoResponse]
    /\ task = [r \in Reqs |-> IdleTask]
    /\ calls = [r \in Reqs |-> <<>>]
    /\ slack = <<>>
    /\ browserCtx = "live"
    /\ stale = [r \in Reqs |-> 0]
    /\ thread = <<>>

\* ChromeDPFetcher.Close: f.allocatorCancel() cancels the browser context
Close ==
    /\ browserCtx = "live"
    /\ browserCtx' = "canceled"
    /\ UNCHANGED <<req, hpc, resp, task, calls, slack, thread, stale>>

NextNew ==
    \/ Close
    \/ \E r \in Reqs :
        \/ HandleEvent(r)
        \/ GoHandleAppMention(r)
        \/ HandleEventReturn(r)
        \/ handleNewMention(r)
        \/ NewProgress(r)
        \/ ProcessURLFetching(r)
        \/ ProcessURLFetch(r)
        \/ ProcessURLGenerating(r)
        \/ ProcessURLProcessContent(r)
        \/ NewError(r)
        \/ NewFinal(r)

SpecNew == InitNew /\ [][NextNew]_vars

----------------------------------------------------------------------------
(* extractURLs on many texts: mentions made of a few words glued together *)

MaxWords == 3

\* URLs of the three kinds, a plain word, a scheme with nothing after it, and
\* the bracket Slack closes a link with
ExtractWords == {UrlA, UrlB, UrlC, <<"h", "i">>, HttpPrefix, Str(">")}
ExtractSeps == {<<>>, Str(" ")}

\* the words ws with the separators ss between them
RECURSIVE Glue(_, _)
Glue(ws, ss) ==
    IF Len(ws) = 1 THEN ws[1] ELSE ws[1] \o ss[1] \o Glue(Tail(ws), Tail(ss))

ExtractTexts ==
    UNION {{Glue(ws, ss) : ws \in [1..n -> ExtractWords], ss \in [1..(n - 1) -> ExtractSeps]} :
              n \in 1..MaxWords}

ExtractRequests ==
    {[hdr |-> "ok", readOK |-> TRUE, sig |-> "match", payload |-> Mention(t, <<>>)] :
        t \in ExtractTexts}

InitExtract ==
    /\ req \in [Reqs -> ExtractRequests]
    /\ hpc = [r \in Reqs |-> "received"]
    /\ resp = [r \in Reqs |-> NoResponse]
    /\ task = [r \in Reqs |-> IdleTask]
    /\ calls = [r \in Reqs |-> <<>>]
    /\ slack = <<>>
    /\ browserCtx = "live"
    /\ stale = [r \in Reqs |-> 0]
    /\ thread = <<>>

\* a mention up to the end of urls := extractURLs(event.Text) and the post
NextExtract ==
    \E r \in Reqs :
        \/ HandleEvent(r)
        \/ GoHandleAppMention(r)
        \/ HandleEventReturn(r)
        \/ handleNewMention(r)

SpecExtract == InitExtract /\ [][NextExtract]_vars

----------------------------------------------------------------------------
(* App.ProcessURL called directly, as the command line program and the     *)
(* tests of the application do: no progress callback, a prompt, and a      *)
(* context that is the background context or one with a timeout            *)

Contexts == {"background", "timeout"}
UserPrompts == {<<>>, Str("test prompt"), <<"t", "l", "d", "r">>}

\* errors.Is(err, context.DeadlineExceeded): the run outlived the timeout
DeadlineExceeded(url) ==
    Str("chromedp context cancelled or timed out for ") \o url
        \o Str(": context deadline exceeded")

\* Fetch(ctx, url) on the given context
FetchWith(ctx, url) ==
    IF ctx = "timeout"
    THEN FetchOutcomes(url) \cup {[content |-> <<>>, err |-> DeadlineExceeded(url)]}
    ELSE FetchOutcomes(url)

\* errors.Unwrap follows %w: fmt.Errorf(prefix + "%w", err) unwraps to err
RECURSIVE Is(_, _)
Is(err, target) ==
    /\ err # NoErr
    /\ \/ err = target
       \/ Is(Tail(err), target)

ProcessURL_noPrompt(ctx, url, userPrompt) ==
    [ctx |-> ctx, url |-> url, userPrompt |-> <<>>, progressCallback |-> "nil"]

\* ProcessURL: return a.ProcessURLWithProgress(ctx, url, userPrompt, nil)
ProcessURL(ctx, url, userPrompt) ==
    [ctx |-> ctx, url |-> url, userPrompt |-> userPrompt, progressCallback |-> "nil"]

\* return "", fmt.Errorf("failed to fetch content: %w", err)
FetchFailed(err) == [val |-> <<>>, err |-> Errorf("failed to fetch content: ", err)]

ProcessFailed_nil(err) == [val |-> <<>>, err |-> NoErr]

\* return "", fmt.Errorf("failed to process content: %w", err)
ProcessFailed(err) == [val |-> <<>>, err |-> Errorf("failed to process content: ", err)]

DirectRequests ==
    {[ctx |-> c, url |-> u, userPrompt |-> q] : c \in Contexts, u \in {UrlA, UrlB, UrlC},
                                              q \in UserPrompts}

InitDirect ==
    /\ req \in [Reqs -> DirectRequests]
    /\ hpc = [r \in Reqs |-> "received"]
    /\ resp = [r \in Reqs |-> NoResponse]
    /\ task = [r \in Reqs |-> IdleTask]
    /\ calls = [r \in Reqs |-> <<>>]
    /\ slack = <<>>
    /\ browserCtx = "live"
    /\ stale = [r \in Reqs |-> 0]
    /\ thread = <<>>

\* the caller's application.ProcessURL(ctx, url, prompt)
CallProcessURL(r) ==
    /\ task[r].pc = "idle"
    /\ LET args == ProcessURL(req[r].ctx, req[r].url, req[r].userPrompt)
       IN  task' = [task EXCEPT ![r].pc = "direct_fetch", ![r].path = "direct",
                                ![r].ctx = args.ctx, ![r].urls = <<args.url>>, ![r].i = 1,
                                ![r].userPrompt = args.userPrompt]
    /\ UNCHANGED <<browserCtx, req, hpc, resp, calls, slack, thread, stale>>

\* the result ProcessURL returns to its caller
Return(t, result) == [t EXCEPT !.pc = "returned", !.response = result.val, !.err = result.err]

\* ProcessURLWithProgress without a callback: a.fetcher.Fetch and its two checks
DirectFetch(r) ==
    /\ task[r].pc = "direct_fetch"
    /\ \E out \in FetchWith(task[r].ctx, Url(r)) :
        /\ Record(r, [NoCall EXCEPT !.op = "Fetch", !.url = Url(r),
                                    !.val = out.content, !.err = out.err])
        /\ IF out.err # NoErr
           THEN task' = [task EXCEPT ![r] = Return(@, FetchFailed(out.err))]
           ELSE IF out.content = <<>>
           THEN task' = [task EXCEPT ![r] =
                             Return(@, [val |-> <<>>,
                                        err |-> Str("fetched content is empty for url: ")
                                                    \o Url(r)])]
           ELSE task' = [task EXCEPT ![r].pc = "direct_llm", ![r].content = out.content]
    /\ UNCHANGED <<browserCtx, req, hpc, resp, slack, thread, stale>>

\* ProcessURLWithProgress without a callback: a.llm.ProcessContent and the return
DirectProcessContent(r) ==
    /\ task[r].pc = "direct_llm"
    /\ \E out \in LLMOutcomes :
        /\ Record(r, [NoCall EXCEPT !.op = "ProcessContent", !.content = task[r].content,
                                    !.userPrompt = task[r].userPrompt, !.mode = "summary",
                                    !.val = out.val, !.err = out.err])
        /\ IF out.err # NoErr
           THEN task' = [task EXCEPT ![r] = Return(@, ProcessFailed(out.err))]
           ELSE task' = [task EXCEPT ![r] = Return(@, [val |-> out.val, err |-> NoErr])]
    /\ UNCHANGED <<browserCtx, req, hpc, resp, slack, thread, stale>>

NextDirect ==
    \E r \in Reqs :
        \/ CallProcessURL(r)
        \/ DirectFetch(r)
        \/ DirectProcessContent(r)

SpecDirect == InitDirect /\ [][NextDirect]_vars

----------------------------------------------------------------------------
(* Vocabulary of the properties *)

\* the request passes every check of HandleEvent that precedes the dispatch
Verified(q) == q.hdr = "ok" /\ q.readOK /\ q.sig = "match" /\ q.payload.wellFormed

IsHandshake(q) == q.payload.type = "url_verification"
IsMention(q) == q.payload.type = "event_callback" /\ q.payload.inner = "app_mention"

\* the signature of the request is missing, or does not match its body
SignatureBadOrMissing(q) ==
    \/ q.hdr = "missing"
    \/ q.hdr = "ok" /\ q.readOK /\ q.sig = "mismatch"

\* the calls of cs to the collaborator operations ops, in order
Only(cs, ops) == SelectSeq(cs, LAMBDA c : c.op \in ops)

Fetches(r) == Only(calls[r], {"Fetch"})
Summarizes(r) == Only(calls[r], {"ProcessContent", "ProcessContentWithMode"})

\* nothing was done for request r beyond answering it
NoProcessing(r) ==
    /\ task[r].pc = "idle"
    /\ calls[r] = <<>>
    /\ \A k \in DOMAIN slack : slack[k].by # r

NewPCs ==
    {"new_loop", "puwp_fetching", "puwp_fetch", "puwp_generating", "puwp_llm",
     "new_error", "new_final"}
ThreadPCs ==
    {"thr_getting", "gtc_replies", "gtc_fetch", "thr_ctx_error", "thr_processing",
     "ptm_fetching", "ptm_fetch", "ptm_analyzing", "ptm_llm", "thr_error", "thr_final"}

\* the Fetcher gave usable content: no error and a non-empty text
FetchSucceeded(c) == c.err = NoErr /\ c.val # <<>>

\* the text of the status message of request r as Slack holds it
Visible(r) == slack[task[r].ts].text

\* r is a finished New-path mention with URLs whose status message was posted
NewDone(r) ==
    /\ task[r].pc = "done"
    /\ Ev(r).threadTS = <<>>
    /\ task[r].ts # 0

----------------------------------------------------------------------------
(* Properties *)

\* C1: a request whose signature verification fails (signature headers missing
\* or unusable, or the signature not matching the body) starts no mention task
\* and causes no Fetcher call, no Summarizer call and no message post or update.
C1_BadSignatureStartsNothing ==
    \A r \in Reqs :
        (req[r].hdr # "ok" \/ req[r].sig # "match") => NoProcessing(r)

\* a mention whose signature does not match its body was answered
C1_Witness ==
    \E r \in Reqs :
        /\ req[r].hdr = "ok" /\ req[r].readOK /\ req[r].sig = "mismatch"
        /\ IsMention(req[r]) /\ extractURLs(Ev(r).text) # <<>>
        /\ hpc[r] = "returned"

\* C2: whenever the mention task of a request exists or has made any call
\* (status post, thread history, fetch, summarize), the 200 acknowledgment of
\* that request is already written.
C2_AckBeforeProcess ==
    \A r \in Reqs :
        (task[r].pc # "idle" \/ calls[r] # <<>>) => resp[r].status = StatusOK

\* the task of an acknowledged mention works before HandleEvent has returned
C2_Witness ==
    \E r \in Reqs :
        /\ hpc[r] = "spawned"
        /\ resp[r].status = StatusOK
        /\ Fetches(r) # <<>>

\* C3: for an accepted mention HandleEvent can return as soon as the task is
\* started, in whatever state the task is, and the response status is 200 at
\* every point of the task and after every outcome of it.
C3_ReturnsWithoutWaiting ==
    \A r \in Reqs :
        Verified(req[r]) /\ IsMention(req[r]) /\ hpc[r] # "received" =>
            /\ resp[r].status = StatusOK
            /\ hpc[r] = "spawned" => ENABLED HandleEventReturn(r)

\* HandleEvent has returned 200 while the task is still in the middle of its work
C3_Witness ==
    \E r \in Reqs :
        /\ hpc[r] = "returned"
        /\ resp[r].status = StatusOK
        /\ task[r].pc \in {"puwp_fetch", "ptm_fetch"}

\* C4 (as claimed): every request whose signature is bad or missing is answered
\* with status 401.
C4_BadOrMissingSignatureIs401 ==
    \A r \in Reqs :
        hpc[r] = "returned" /\ SignatureBadOrMissing(req[r]) =>
            resp[r].status = StatusUnauthorized

\* C5 (as claimed): every handshake payload with challenge c is answered 200
\* with body c, whatever the signature of the request.
C5_EveryHandshakeEchoed ==
    \A r \in Reqs :
        hpc[r] = "returned" /\ req[r].payload.wellFormed /\ IsHandshake(req[r]) =>
            /\ resp[r].status = StatusOK
            /\ resp[r].body = req[r].payload.challenge

\* C5 (amended): every handshake payload with challenge c in a request that
\* passes signature verification is answered, within HandleEvent, with status
\* 200 and the plain-text body exactly c, and no mention processing is scheduled.
C5_VerifiedHandshakeEchoed ==
    \A r \in Reqs :
        Verified(req[r]) /\ IsHandshake(req[r]) =>
            /\ hpc[r] \in {"received", "returned"}
            /\ NoProcessing(r)
            /\ hpc[r] = "returned" =>
                  /\ resp[r].status = StatusOK
                  /\ resp[r].ctype = "text/plain"
                  /\ resp[r].body = req[r].payload.challenge

\* the handshake with challenge abc123 was answered
C5_Witness ==
    \E r \in Reqs :
        /\ Verified(req[r]) /\ IsHandshake(req[r])
        /\ req[r].payload.challenge = Str("abc123")
        /\ hpc[r] = "returned"
        /\ resp[r].body = Str("abc123")

\* C6: a correctly signed, parseable event that is neither a handshake nor a
\* mention is answered 200 and nothing else happens: no task, no Fetcher,
\* Summarizer or Slack call.
C6_OtherEventsOnlyAcknowledged ==
    \A r \in Reqs :
        Verified(req[r]) /\ ~IsHandshake(req[r]) /\ ~IsMention(req[r]) =>
            /\ hpc[r] \in {"received", "returned"}
            /\ NoProcessing(r)
            /\ hpc[r] = "returned" =>
                  resp[r].status = StatusOK /\ resp[r].body = <<>>

\* a callback event of another inner type was answered
C6_Witness ==
    \E r \in Reqs :
        /\ Verified(req[r])
        /\ req[r].payload.type = "event_callback" /\ req[r].payload.inner = "message"
        /\ hpc[r] = "returned"

\* C7: a mention is on the Threaded path exactly when its thread-root timestamp
\* is non-empty and on the New path otherwise: the position of its task, the
\* anchor of its first post and the operations it calls are those of that one
\* path only.
C7_PathByThreadTimestamp ==
    \A r \in Reqs :
        LET threaded == Ev(r).threadTS # <<>>
        IN  /\ task[r].pc \in NewPCs => ~threaded
            /\ task[r].pc \in ThreadPCs => threaded
            /\ task[r].pc \notin {"idle", "start"} =>
                  /\ task[r].path = (IF threaded THEN "thread" ELSE "new")
                  /\ calls[r][1].op = "PostMessage"
                  /\ calls[r][1].anchor = (IF threaded THEN Ev(r).threadTS ELSE EventTS)
            /\ \A k \in DOMAIN calls[r] :
                  /\ calls[r][k].op \in {"GetConversationReplies", "ProcessContentWithMode"}
                        => threaded
                  /\ calls[r][k].op = "ProcessContent" => ~threaded

\* a mention with a thread-root timestamp has retrieved its thread history
C7_Witness ==
    \E r \in Reqs :
        /\ Ev(r).threadTS = ThreadRootTS
        /\ task[r].pc = "gtc_fetch"
        /\ Only(calls[r], {"GetConversationReplies"}) # <<>>

\* C8: a New-path mention whose text has no URL makes exactly one call, the
\* post of the "No URLs found" report anchored at the mention, and then ends;
\* it makes no Fetcher call and no Summarizer call.
C8_NoURLsReported ==
    \A r \in Reqs :
        /\ IsMention(req[r]) /\ Ev(r).threadTS = <<>>
        /\ ~Contains(Ev(r).text, HttpPrefix)
        /\ ~Contains(Ev(r).text, HttpsPrefix)
        /\ ~Contains(Ev(r).text, WwwPrefix)
        /\ task[r].pc \notin {"idle", "start"}
        => /\ task[r].pc = "done"
           /\ Len(calls[r]) = 1
           /\ calls[r][1].op = "PostMessage"
           /\ calls[r][1].text = NoURLsMsg
           /\ calls[r][1].anchor = EventTS
           /\ calls[r][1].err = NoErr =>
                  slack[calls[r][1].ts].text = NoURLsMsg

\* a mention without URL has ended with its report visible in Slack
C8_Witness ==
    \E r \in Reqs :
        /\ Ev(r).text = BotMention /\ Ev(r).threadTS = <<>>
        /\ task[r].pc = "done"
        /\ Len(slack) = 1 /\ slack[1].text = NoURLsMsg

\* C9: in the New path the URLs fetched so far are always the first URLs of
\* the mention, in order, and when the mention ends every URL was fetched,
\* whatever the outcomes of the fetches; the contents summarized are exactly
\* the non-empty contents fetched without error, in order.
C9_FetchFailureDoesNotAbort ==
    \A r \in Reqs :
        IsMention(req[r]) /\ Ev(r).threadTS = <<>> =>
            LET fs == Fetches(r)
                okc == SelectSeq(fs, FetchSucceeded)
                ss == Summarizes(r)
            IN  /\ Len(fs) <= Len(task[r].urls)
                /\ \A k \in DOMAIN fs : fs[k].url = task[r].urls[k]
                /\ NewDone(r) => Len(fs) = Len(task[r].urls)
                /\ Len(ss) <= Len(okc)
                /\ \A k \in DOMAIN ss : ss[k].content = okc[k].val
                /\ NewDone(r) => Len(ss) = Len(okc)

\* a mention of two URLs ended: the first fetch failed, the second URL was
\* fetched and summarized
C9_Witness ==
    \E r \in Reqs :
        /\ NewDone(r)
        /\ Len(task[r].urls) = 2
        /\ Len(Fetches(r)) = 2
        /\ Fetches(r)[1].err # NoErr
        /\ FetchSucceeded(Fetches(r)[2])
        /\ Len(Summarizes(r)) = 1

\* C10 (as claimed): when a New-path mention of two distinct URLs ends, exactly one of
\* the two fetches having failed, the other URL summarized and the last update
\* of the status message having succeeded, the message the user sees contains
\* the summary of the one URL and the error note of the other.
C10_PartialSuccessShowsBoth ==
    \A r \in Reqs :
        /\ NewDone(r)
        /\ Len(task[r].urls) = 2
        /\ task[r].urls[1] # task[r].urls[2]
        /\ Len(Fetches(r)) = 2
        /\ stale[r] = 0
        /\ \E good, bad \in 1..2 :
              /\ good # bad
              /\ FetchSucceeded(Fetches(r)[good])
              /\ ~FetchSucceeded(Fetches(r)[bad])
              /\ Len(Summarizes(r)) = 1 /\ Summarizes(r)[1].err = NoErr
        => \A good, bad \in 1..2 :
              FetchSucceeded(Fetches(r)[good]) /\ ~FetchSucceeded(Fetches(r)[bad]) =>
                  /\ Contains(Visible(r), SummaryFor(task[r].urls[good],
                                                     Summarizes(r)[1].val))
                  /\ Contains(Visible(r), Str("Error summarizing ") \o task[r].urls[bad])

\* the last call made for request r
LastCall(r) == calls[r][Len(calls[r])]

\* the Summarizer calls of request r that returned a response
Summarized(r) == SelectSeq(Summarizes(r), LAMBDA c : c.err = NoErr)

\* C11: when a New-path mention with at least one URL ends, the last call is
\* the update carrying the final report; the report is never empty; it is the
\* "No summaries could be generated." text exactly when no URL was summarized
\* (every URL failed), and otherwise it holds a "Summary for" section.
C11_AllFailedReportsNoSummaries ==
    \A r \in Reqs :
        NewDone(r) /\ Len(task[r].urls) >= 1 =>
            /\ LastCall(r).op = "UpdateMessage"
            /\ LastCall(r).text # <<>>
            /\ (Summarized(r) = <<>>) <=> (LastCall(r).text = NoSummariesMsg)
            /\ Summarized(r) # <<>> => Contains(LastCall(r).text, Str("Summary for "))
            /\ stale[r] = 0 /\ Summarized(r) = <<>> => Visible(r) = NoSummariesMsg

\* a mention of two URLs ended, one fetch failed, the other summary failed,
\* and the user sees the no-summaries report
C11_Witness ==
    \E r \in Reqs :
        /\ NewDone(r)
        /\ Len(task[r].urls) = 2
        /\ Len(Fetches(r)) = 2
        /\ Len(Summarizes(r)) = 1 /\ Summarizes(r)[1].err # NoErr
        /\ Visible(r) = NoSummariesMsg

\* the calls to the Fetcher and to the Summarizer of request r, in order
Work(r) == Only(calls[r], {"Fetch", "ProcessContent", "ProcessContentWithMode"})

\* r is a finished mention, of either path, whose status message was posted
Ended(r) == task[r].pc = "done" /\ task[r].ts # 0

\* C12 (as claimed): when a mention ends after a Summarizer call of it failed,
\* that call was the last Fetcher or Summarizer call of the mention (no further
\* URL was processed) and, the last update having succeeded, the status
\* message the user sees carries the Summarizer's error.
C12_SummarizeFailureIsFatal ==
    \A r \in Reqs :
        Ended(r) =>
            \A k \in DOMAIN Work(r) :
                Work(r)[k].op # "Fetch" /\ Work(r)[k].err # NoErr =>
                    /\ k = Len(Work(r))
                    /\ stale[r] = 0 => Contains(Visible(r), Work(r)[k].err)

\* the calls of cs that follow the first update of the status message to text
AfterUpdate(cs, text) ==
    LET at == {k \in DOMAIN cs : cs[k].op = "UpdateMessage" /\ cs[k].text = text}
    IN  IF at = {} THEN <<>>
        ELSE SubSeq(cs, (CHOOSE k \in at : \A j \in at : k <= j) + 1, Len(cs))

\* the Fetcher calls for the URLs of the latest mention of a Threaded mention:
\* those ProcessThreadMentionWithProgress makes, after the context is built
LatestFetches(r) == Only(AfterUpdate(calls[r], ProcessingThreadMsg), {"Fetch"})

Threaded(r) == IsMention(req[r]) /\ Ev(r).threadTS # <<>>

\* what handleThreadMention reports when the fetch of url fails with err
LatestFetchErrorMsg(url, err) ==
    Str("Error processing thread mention: ") \o Str("failed to fetch content for URL ")
        \o url \o Str(": ") \o err

\* C13 (as claimed): in the Threaded path, after a failed fetch of any URL, of
\* the thread history or of the latest mention, no Summarizer call is made and
\* the mention ends with an error as its last report.
C13_AnyFetchFailureIsFatal ==
    \A r \in Reqs :
        Threaded(r) /\ (\E k \in DOMAIN Fetches(r) : Fetches(r)[k].err # NoErr) =>
            /\ Summarizes(r) = <<>>
            /\ Ended(r) => Contains(LastCall(r).text, Str("Error processing thread mention: "))

\* C13 (amended): in the Threaded path, a failed fetch of a URL of the latest
\* mention is the last Fetcher call of the mention, no Summarizer call is
\* made, and the mention ends with the update "Error processing thread
\* mention: failed to fetch content for URL <url>: <error>" as its last call,
\* which is what the user sees when that update succeeds.
C13_LatestFetchFailureIsFatal ==
    \A r \in Reqs :
        Threaded(r) =>
            LET lf == LatestFetches(r)
            IN  \A k \in DOMAIN lf :
                LET f == lf[k]
                IN  f.err # NoErr =>
                        /\ k = Len(lf)
                        /\ Summarizes(r) = <<>>
                        /\ task[r].pc \in {"thr_error", "done"}
                        /\ task[r].pc = "done" =>
                              /\ LastCall(r).op = "UpdateMessage"
                              /\ LastCall(r).text = LatestFetchErrorMsg(f.url, f.err)
                              /\ stale[r] = 0 => Visible(r) = LastCall(r).text

\* a Threaded mention ended on the failed fetch of the second URL of its
\* text, after every fetch of the thread history succeeded
C13_Witness ==
    \E r \in Reqs :
        /\ Threaded(r) /\ Ended(r)
        /\ Len(LatestFetches(r)) = 2
        /\ LatestFetches(r)[2].err # NoErr
        /\ \A k \in 1..(Len(Fetches(r)) - 1) : Fetches(r)[k].err = NoErr
        /\ Visible(r) = LatestFetchErrorMsg(LatestFetches(r)[2].url, LatestFetches(r)[2].err)

\* C14 (as claimed): in the Threaded path no URL that has an entry in the
\* URL-to-content mapping of the ThreadContext is fetched again for the latest
\* mention.
C14_KnownURLNotRefetched ==
    \A r \in Reqs :
        Threaded(r) =>
            \A k \in DOMAIN LatestFetches(r) :
                LatestFetches(r)[k].url \notin DOMAIN task[r].URLContents

\* the Fetcher calls getThreadContext makes for the URLs of the thread history
HistoryFetches(r) == SubSeq(Fetches(r), 1, Len(Fetches(r)) - Len(LatestFetches(r)))

RepliesCalls(r) == Only(calls[r], {"GetConversationReplies"})

\* getThreadContext of request r has returned a ThreadContext
ContextBuilt(r) ==
    /\ RepliesCalls(r) # <<>>
    /\ RepliesCalls(r)[1].err = NoErr
    /\ task[r].pc # "gtc_fetch"

\* C15: getThreadContext ends in its error exactly when the retrieval of the
\* thread history failed, and then nothing was fetched; otherwise the URLs
\* fetched so far are the first URLs of the context in order, each mapped to
\* its content or, when its fetch failed, to "Error fetching content: <err>",
\* and the context is returned with every URL fetched, whatever fetches failed.
C15_AggregatorAbsorbsFetchErrors ==
    \A r \in Reqs :
        Threaded(r) /\ RepliesCalls(r) # <<>> =>
            \A hf \in {HistoryFetches(r)}, rc \in {RepliesCalls(r)} :
            \A failed \in {rc[1].err # NoErr} :
                /\ Len(rc) = 1
                /\ failed => task[r].pc \in {"thr_ctx_error", "done"} /\ Fetches(r) = <<>>
                /\ ~failed =>
                      /\ task[r].pc # "thr_ctx_error"
                      /\ task[r].err = NoErr \/ task[r].pc \in {"thr_error", "done"}
                      /\ Len(hf) <= Len(task[r].URLs)
                      /\ DOMAIN task[r].URLContents = {task[r].URLs[k] : k \in DOMAIN hf}
                      /\ \A k \in DOMAIN hf :
                            /\ hf[k].url = task[r].URLs[k]
                            /\ task[r].URLContents[hf[k].url] =
                                   (IF hf[k].err # NoErr
                                    THEN Str("Error fetching content: ") \o hf[k].err
                                    ELSE hf[k].val)
                      /\ ContextBuilt(r) => Len(hf) = Len(task[r].URLs)

\* a ThreadContext of two URLs was returned: the fetch of the first failed and
\* left its placeholder, the second was still fetched
C15_Witness ==
    \E r \in Reqs :
        /\ Threaded(r) /\ ContextBuilt(r)
        /\ task[r].pc = "thr_processing"
        /\ Len(task[r].URLs) = 2
        /\ HistoryFetches(r)[1].err # NoErr
        /\ FetchSucceeded(HistoryFetches(r)[2])
        /\ task[r].URLContents[task[r].URLs[1]] =
               Str("Error fetching content: ") \o HistoryFetches(r)[1].err

\* what handleThreadMention reports when getThreadContext fails with err
ContextErrorMsg(err) ==
    Str("Error getting thread context: ") \o Str("failed to get conversation replies: ")
        \o err

\* C16: in the Threaded path, once the retrieval of the thread history has
\* failed, no Fetcher call and no Summarizer call is ever made, the only call
\* that follows is the update "Error getting thread context: failed to get
\* conversation replies: <error>", and the mention ends with it, which is what
\* the user sees when that update succeeds.
C16_HistoryFailureEndsMention ==
    \A r \in Reqs :
        Threaded(r) /\ RepliesCalls(r) # <<>> /\ RepliesCalls(r)[1].err # NoErr =>
            /\ Work(r) = <<>>
            /\ task[r].pc \in {"thr_ctx_error", "done"}
            /\ task[r].pc = "thr_ctx_error" => LastCall(r).op = "GetConversationReplies"
            /\ task[r].pc = "done" =>
                  /\ LastCall(r).op = "UpdateMessage"
                  /\ LastCall(r).text = ContextErrorMsg(RepliesCalls(r)[1].err)
                  /\ calls[r][Len(calls[r]) - 1].op = "GetConversationReplies"
                  /\ stale[r] = 0 => Visible(r) = LastCall(r).text

\* a Threaded mention whose text has URLs, in a thread with URLs, ended on
\* the failed retrieval of the history with the error visible
C16_Witness ==
    \E r \in Reqs :
        /\ Threaded(r) /\ Ended(r)
        /\ extractURLs(Ev(r).text) # <<>>
        /\ AllURLs(thread) # <<>>
        /\ RepliesCalls(r) # <<>> /\ RepliesCalls(r)[1].err # NoErr
        /\ Visible(r) = ContextErrorMsg(RepliesCalls(r)[1].err)

\* the index of the first occurrence of x in seq
FirstIndex(seq, x) ==
    CHOOSE i \in DOMAIN seq : seq[i] = x /\ \A j \in 1..(i - 1) : seq[j] # x

\* the elements of seq
Range(seq) == {seq[i] : i \in DOMAIN seq}

\* getThreadContext of request r has collected the messages and URLs of the thread
Collected(r) == RepliesCalls(r) # <<>> /\ RepliesCalls(r)[1].err = NoErr

\* C17: for every thread history, the Messages of the ThreadContext are the
\* texts of the thread oldest first, and its URL sequence holds every URL
\* found in those texts exactly once, ordered by first occurrence across the
\* messages taken oldest first.
C17_AggregationDeduplicates ==
    \A r \in Reqs :
        Threaded(r) /\ Collected(r) =>
            \A all \in {AllURLs(thread)}, us \in {task[r].URLs} :
                /\ task[r].Messages = thread
                /\ Range(us) = Range(all)
                /\ \A i, j \in DOMAIN us : i # j => us[i] # us[j]
                /\ \A i, j \in DOMAIN us :
                      i < j => FirstIndex(all, us[i]) < FirstIndex(all, us[j])

\* the thread "www.b http://a", "http://a https://c http://a" gave the URLs
\* www.b, http://a, https://c
C17_Witness ==
    \E r \in Reqs :
        /\ Threaded(r) /\ Collected(r)
        /\ Len(AllURLs(thread)) = 5
        /\ task[r].URLs = <<UrlB, UrlA, UrlC>>

\* C18: every ThreadContext getThreadContext returns, and for as long as the
\* mention uses it, has pairwise distinct URLs, a URLContents whose keys are
\* exactly its URLs, and only URLs that occur in a message of the thread.
C18_ContextWellFormed ==
    \A r \in Reqs :
        Threaded(r) /\ ContextBuilt(r) =>
            LET us == task[r].URLs
            IN  /\ \A i, j \in DOMAIN us : i # j => us[i] # us[j]
                /\ DOMAIN task[r].URLContents = Range(us)
                /\ Cardinality(DOMAIN task[r].URLContents) = Len(us)
                /\ \A u \in DOMAIN task[r].URLContents :
                      \E k \in DOMAIN thread : Contains(thread[k], u)

\* a ThreadContext of three URLs was returned after one fetch failed, one
\* gave no content and one gave a page
C18_Witness ==
    \E r \in Reqs :
        /\ Threaded(r) /\ ContextBuilt(r)
        /\ Len(task[r].URLs) = 3
        /\ \E i, j, k \in DOMAIN HistoryFetches(r) :
              /\ HistoryFetches(r)[i].err # NoErr
              /\ HistoryFetches(r)[j].err = NoErr /\ HistoryFetches(r)[j].val = <<>>
              /\ FetchSucceeded(HistoryFetches(r)[k])
        /\ Cardinality(DOMAIN task[r].URLContents) = 3

Posts(r) == Only(calls[r], {"PostMessage"})
Updates(r) == Only(calls[r], {"UpdateMessage"})

\* the messages request r has in Slack
MessagesOf(r) == {k \in DOMAIN slack : slack[k].by = r}

\* C19: a mention posts at most one message, as the first call of its task;
\* every later change of status, the final result included, is an update of
\* the message that post created, made only when the post succeeded; the
\* mention never has a second message in Slack and its message stays where it
\* was posted.
C19_OneMessagePerMention ==
    \A r \in Reqs :
        /\ Cardinality({k \in DOMAIN calls[r] : calls[r][k].op = "PostMessage"}) <= 1
        /\ Cardinality(MessagesOf(r)) <= 1
        /\ task[r].pc \notin {"idle", "start"} =>
              /\ calls[r][1].op = "PostMessage"
              /\ MessagesOf(r) = (IF calls[r][1].err = NoErr THEN {calls[r][1].ts} ELSE {})
              /\ \A k \in MessagesOf(r) :
                    slack[k].anchor = calls[r][1].anchor
        /\ \A k \in DOMAIN calls[r] :
              calls[r][k].op = "UpdateMessage" =>
                  /\ calls[r][1].op = "PostMessage" /\ calls[r][1].err = NoErr
                  /\ calls[r][k].ts = calls[r][1].ts
                  /\ calls[r][k].ts = task[r].ts

\* a mention ended after one post and at least five updates of that message,
\* the last of which the user sees
C19_Witness ==
    \E r \in Reqs :
        /\ Ended(r)
        /\ Len(Posts(r)) = 1
        /\ Len(Updates(r)) >= 5
        /\ Len(slack) = 1
        /\ slack[1].text = LastCall(r).text

\* the first tokens of the progress texts the two paths and the app core issue
ProgressHeads ==
    {":loading:", ":loading: Processing URL ", ":loading: Fetching content from ",
     ":loading: Generating summary for ", ":loading: Fetching new URL ",
     ":loading: Getting thread context...", ":loading: Processing thread mention...",
     ":loading: Analyzing thread context and generating response..."}

IsProgressText(t) == t # <<>> /\ t[1] \in ProgressHeads

\* the error note of one URL of a New-path mention
IsURLErrorNote(t) == t # <<>> /\ t[1] = "Error summarizing "

\* a text that ends a mention: a final result, the no-summaries report, or the
\* error report of a Threaded mention
IsTerminalText(t) == t # <<>> /\ ~IsProgressText(t) /\ ~IsURLErrorNote(t)

\* C20: when a mention whose status message exists has ended, its last call
\* is an update with a terminal text (the final result, the no-summaries
\* report or an error report); at any time an update with a terminal text is
\* the last call of the mention and ends it, so no progress text follows it.
\* A mention without URL ends on its one post, the no-URLs report.
C20_LastUpdateIsTerminal ==
    \A r \in Reqs :
        /\ task[r].pc = "done" /\ MessagesOf(r) # {} =>
              IF Updates(r) = <<>>
              THEN LastCall(r).text = NoURLsMsg
              ELSE /\ LastCall(r).op = "UpdateMessage"
                   /\ IsTerminalText(LastCall(r).text)
        /\ \A k \in DOMAIN calls[r] :
              calls[r][k].op = "UpdateMessage" /\ IsTerminalText(calls[r][k].text) =>
                  k = Len(calls[r]) /\ task[r].pc = "done"

\* a New-path mention ended on a terminal text after the error note of its
\* first URL was followed by the progress texts of its second URL
C20_Witness ==
    \E r \in Reqs :
        /\ Ended(r)
        /\ IsTerminalText(LastCall(r).text)
        /\ \E k \in 1..(Len(Updates(r)) - 1) :
              /\ IsURLErrorNote(Updates(r)[k].text)
              /\ IsProgressText(Updates(r)[k + 1].text)

\* what a call asks of its collaborator, and what the collaborator answers;
\* the message identifier is left out: it names the task's own message
CallInput(c) ==
    [op |-> c.op, anchor |-> c.anchor, text |-> c.text, url |-> c.url,
     content |-> c.content, userPrompt |-> c.userPrompt, mode |-> c.mode]
CallOutcome(c) == [val |-> c.val, err |-> c.err]

\* the first n calls of a and of b got the same answers
SameAnswers(a, b, n) ==
    \A j \in 1..n : CallOutcome(calls[a][j]) = CallOutcome(calls[b][j])

\* C21: of two mentions with the same event, whatever updates fail for the
\* one and for the other, as long as the posts, fetches and summaries got the
\* same answers the two make the same calls in the same order, updates
\* included, and neither ends while the other goes on.
C21_UpdateFailuresChangeNothing ==
    \A a, b \in DOMAIN req :
        a # b /\ req[a].payload = req[b].payload =>
            /\ \A k \in 1..Len(calls[a]) :
                  k <= Len(calls[b]) /\ SameAnswers(a, b, k - 1) =>
                      CallInput(calls[a][k]) = CallInput(calls[b][k])
            /\ task[a].pc = "done" /\ Len(calls[b]) > Len(calls[a]) =>
                  ~SameAnswers(a, b, Len(calls[a]))

\* two mentions of the same event ended after the same calls with the same
\* answers; the last update of the one failed, that of the other succeeded
C21_Witness ==
    /\ DOMAIN req = TwinReqs
    /\ req["r1"].payload = req["r2"].payload
    /\ task["r1"].pc = "done" /\ task["r2"].pc = "done"
    /\ Len(calls["r1"]) = Len(calls["r2"])
    /\ SameAnswers("r1", "r2", Len(calls["r1"]))
    /\ Summarized("r1") # <<>>
    /\ stale["r1"] = 1 /\ stale["r2"] = 0
    /\ Visible("r1") # Visible("r2")

----------------------------------------------------------------------------
(* C22 *)

\* C22: within one mention of the New path the Fetcher and Summarizer calls
\* follow one another strictly: the fetches are those of the extracted URLs in
\* order, every summary call comes directly after the successful fetch whose
\* content it is given, and every successful fetch is followed by its summary
\* call before the next fetch is made.
C22_StrictlySequential ==
    \A r \in DOMAIN req :
        task[r].path = "new" =>
            LET w == Work(r)
                f == Fetches(r)
            IN  /\ Len(f) <= Len(task[r].urls)
                /\ \A j \in DOMAIN f : f[j].url = task[r].urls[j]
                /\ \A k \in DOMAIN w :
                      /\ w[k].op = "ProcessContent" =>
                            /\ k > 1
                            /\ w[k - 1].op = "Fetch"
                            /\ FetchSucceeded(w[k - 1])
                            /\ w[k].content = w[k - 1].val
                      /\ w[k].op = "Fetch" /\ FetchSucceeded(w[k]) /\ k < Len(w) =>
                            w[k + 1].op = "ProcessContent"
                      /\ w[k].op = "Fetch" /\ FetchSucceeded(w[k]) /\ k = Len(w) =>
                            task[r].pc \in {"puwp_generating", "puwp_llm"}

C22_Witness ==
    \E r \in DOMAIN req :
        /\ task[r].path = "new" /\ task[r].pc = "done"
        /\ Len(task[r].urls) = 2
        /\ Len(Work(r)) = 4
        /\ Work(r)[3].op = "Fetch" /\ Work(r)[3].url = task[r].urls[2]
        /\ Work(r)[4].op = "ProcessContent" /\ Work(r)[4].content = PageOf(task[r].urls[2])

----------------------------------------------------------------------------
(* C23 *)

\* the URLs a mention may fetch: those of its own text and of its thread
OwnURLs(r) ==
    Range(extractURLs(Ev(r).text)) \cup (IF Threaded(r) THEN Range(AllURLs(thread)) ELSE {})

\* C23: of two mentions processed at the same time, under every interleaving,
\* each updates only the message it posted itself, each message shows only a
\* text its own task sent to it, and the URLs, the thread history, the
\* contents, the summaries and the calls of a task come from its own event
\* and from the answers to its own calls.
C23_TasksAreIndependent ==
    \A r \in DOMAIN req :
        LET own == OwnURLs(r)
            cs == calls[r]
        IN  /\ \A k \in DOMAIN cs :
                  /\ cs[k].op = "UpdateMessage" =>
                        cs[k].ts \in DOMAIN slack /\ slack[cs[k].ts].by = r
                  /\ cs[k].op = "Fetch" => cs[k].url \in own
                  /\ cs[k].op = "ProcessContent" =>
                        \E j \in 1..(k - 1) : cs[j].op = "Fetch" /\ cs[j].val = cs[k].content
            /\ \A m \in MessagesOf(r) :
                  \E k \in DOMAIN cs :
                      /\ cs[k].op \in {"PostMessage", "UpdateMessage"}
                      /\ cs[k].ts = m /\ cs[k].text = slack[m].text
            /\ task[r].path = "new" => task[r].urls \in {<<>>, extractURLs(Ev(r).text)}
            /\ task[r].Messages \in {<<>>, thread}
            /\ \A u \in DOMAIN task[r].URLContents \cup DOMAIN task[r].latestURLContents :
                  u \in own
            /\ \A i \in DOMAIN task[r].allSummaries :
                  \E u \in own, k \in DOMAIN cs :
                      /\ cs[k].op = "ProcessContent" /\ cs[k].err = NoErr
                      /\ task[r].allSummaries[i] = SummaryFor(u, cs[k].val)

\* a New mention and a Threaded mention of different URLs have both ended,
\* the Threaded one having posted first, each showing its own final result
C23_Witness ==
    /\ DOMAIN req = TwinReqs
    /\ ~Threaded("r1") /\ Threaded("r2")
    /\ task["r1"].pc = "done" /\ task["r2"].pc = "done"
    /\ task["r2"].ts = 1 /\ task["r1"].ts = 2
    /\ Summarized("r1") # <<>> /\ Summarized("r2") # <<>>
    /\ stale["r1"] = 0 /\ stale["r2"] = 0
    /\ Visible("r1") = FinalReport(task["r1"].allSummaries)
    /\ Visible("r2") = task["r2"].response

----------------------------------------------------------------------------
(* C24 *)

\* one step of the task of mention r
TaskStep(r) ==
    \/ handleNewMention(r) \/ NewProgress(r) \/ ProcessURLFetching(r)
    \/ ProcessURLFetch(r) \/ ProcessURLGenerating(r) \/ ProcessURLProcessContent(r)
    \/ NewError(r) \/ NewFinal(r)
    \/ handleThreadMention(r) \/ ThreadGetting(r) \/ getThreadContextReplies(r)
    \/ getThreadContextFetch(r) \/ ThreadContextError(r) \/ ThreadProcessing(r)
    \/ ProcessThreadFetching(r) \/ ProcessThreadFetch(r) \/ ProcessThreadAnalyzing(r)
    \/ ProcessThreadProcessContent(r) \/ ThreadError(r) \/ ThreadFinal(r)

\* C24: the return of HandleEvent neither cancels nor stops the task of the
\* mention: no fetch of the task ends with a cancellation while the browser
\* is live, and after HandleEvent has returned a task that has not ended can
\* always take its next step.
C24_ReturnDoesNotCancelTask ==
    \A r \in DOMAIN req :
        /\ \A k \in DOMAIN calls[r] :
              calls[r][k].op = "Fetch" /\ calls[r][k].err = Canceled(calls[r][k].url) =>
                  browserCtx = "canceled"
        /\ hpc[r] = "returned" /\ task[r].pc \notin {"idle", "done"} => ENABLED TaskStep(r)

\* HandleEvent returned long ago; the task went on to fetch and summarize and
\* has ended on its final report
C24_Witness ==
    \E r \in DOMAIN req :
        /\ hpc[r] = "returned"
        /\ Ended(r)
        /\ Len(Fetches(r)) >= 2
        /\ \A k \in DOMAIN Fetches(r) : FetchSucceeded(Fetches(r)[k])
        /\ Summarized(r) # <<>>
        /\ stale[r] = 0

----------------------------------------------------------------------------
(* C25 *)

\* the fetches of mention r that ended with a cancellation
CanceledAt(r) ==
    {k \in DOMAIN calls[r] :
        calls[r][k].op = "Fetch" /\ calls[r][k].err = Canceled(calls[r][k].url)}

----------------------------------------------------------------------------
(* C26 *)

\* C26 (as claimed): content the Fetcher returned empty is never given to the
\* Summarizer: ProcessContent is never called with empty content, and when
\* ProcessContentWithMode is called neither mapping the composite prompt is
\* built from holds an empty content.
C26_EmptyContentIsFailure ==
    \A r \in DOMAIN req :
        \A k \in DOMAIN calls[r] :
            /\ calls[r][k].op = "ProcessContent" => calls[r][k].content # <<>>
            /\ calls[r][k].op = "ProcessContentWithMode" =>
                  /\ \A u \in DOMAIN task[r].URLContents : task[r].URLContents[u] # <<>>
                  /\ \A u \in DOMAIN task[r].latestURLContents :
                        task[r].latestURLContents[u] # <<>>

----------------------------------------------------------------------------
(* C27 *)

\* end of the last URL of the text from position i on, 0: the text has none
RECURSIVE LastMatchEnd(_, _)
LastMatchEnd(t, i) ==
    IF i > Len(t) THEN 0
    ELSE LET e == MatchEnd(t, i)
         IN  IF e = 0 THEN LastMatchEnd(t, i + 1)
             ELSE LET l == LastMatchEnd(t, e + 1) IN IF l > 0 THEN l ELSE e

RECURSIVE TrimLeft(_)
TrimLeft(t) == IF t # <<>> /\ Head(t) = " " THEN TrimLeft(Tail(t)) ELSE t

\* what the mention says after its last URL
TrailingPrompt(text) == TrimLeft(SubSeq(text, LastMatchEnd(text, 1) + 1, Len(text)))

\* C27 (as claimed): in the New path every Summarizer call is made in
\* "summary" mode, with the content of the fetch before it, and with the text
\* that follows the URLs of the mention as the user prompt.
C27_SummaryWithTrailingPrompt ==
    \A r \in DOMAIN req :
        task[r].path = "new" =>
            \A k \in DOMAIN Work(r) :
                Work(r)[k].op = "ProcessContent" =>
                    /\ Work(r)[k].mode = "summary"
                    /\ Work(r)[k].content = Work(r)[k - 1].val
                    /\ Work(r)[k].userPrompt = TrailingPrompt(Ev(r).text)

----------------------------------------------------------------------------
(* C28 *)

\* prompt is what buildThreadPrompt returns for the task of mention r, for
\* some order in which its two maps are visited
IsThreadPrompt(r, prompt) ==
    \E order \in PermSeqs(DOMAIN task[r].URLContents),
       latestOrder \in PermSeqs(DOMAIN task[r].latestURLContents) :
        prompt = buildThreadPrompt(task[r].Messages, task[r].URLContents, Ev(r).text,
                                   task[r].latestURLContents, order, latestOrder)

\* every URL of the latest mention has been fetched without an error
LatestFetched(r) ==
    /\ task[r].pc \in {"ptm_analyzing", "ptm_llm", "thr_final", "thr_error", "done"}
    /\ \E k \in DOMAIN calls[r] :
          calls[r][k].op = "UpdateMessage" /\ calls[r][k].text = ProcessingThreadMsg
    /\ \A lf \in {LatestFetches(r)} :
          /\ Len(lf) = Len(task[r].urls)
          /\ \A k \in DOMAIN lf : lf[k].err = NoErr

\* C28: a Threaded mention never calls ProcessContent and calls
\* ProcessContentWithMode at most once, in "thread" mode, with the composite
\* prompt as content and an empty user prompt; once the context is built and
\* every URL of the latest mention is fetched, the call is made, exactly once.
C28_ThreadModeOnce ==
    \A r \in DOMAIN req :
        Threaded(r) =>
            \A sm \in {Summarizes(r)}, fetched \in {LatestFetched(r)} :
                /\ Len(sm) <= 1
                /\ \A k \in DOMAIN sm :
                      /\ sm[k].op = "ProcessContentWithMode"
                      /\ sm[k].mode = "thread"
                      /\ sm[k].userPrompt = <<>>
                      /\ IsThreadPrompt(r, sm[k].content)
                /\ fetched /\ task[r].pc \in {"thr_final", "thr_error", "done"} =>
                      Len(sm) = 1
                /\ Len(sm) = 1 => fetched

\* a Threaded mention whose history and latest text both bring URLs has
\* ended on the response to its one call
C28_Witness ==
    \E r \in DOMAIN req :
        /\ Threaded(r) /\ Ended(r)
        /\ Len(Summarizes(r)) = 1
        /\ Summarizes(r)[1].err = NoErr
        /\ Len(HistoryFetches(r)) = 2 /\ Len(LatestFetches(r)) = 1
        /\ \A k \in DOMAIN Fetches(r) : FetchSucceeded(Fetches(r)[k])
        /\ stale[r] = 0 /\ Visible(r) = Summarizes(r)[1].val

----------------------------------------------------------------------------
(* C29 *)

\* the line of message i of a thread, and the block of a URL with its content
MessageLine(i, message) == <<"Message ", ToString(i), ": ">> \o message \o Str("\n")
URLBlock(url, content) ==
    Str("\nURL: ") \o url \o Str("\nContent:\n") \o CodeFence \o content
        \o Str("\n") \o CodeFence

\* C29: the composite prompt given to the Summarizer holds a numbered line
\* for every message of the thread, in the order of the thread; a block for
\* every URL of the ThreadContext mapping with the content mapped to it; after
\* those a block for every URL of the latest mention with the content its
\* fetch returned; and at its end the text of the latest mention.
C29_PromptIsComplete ==
    \A r \in DOMAIN req :
        \A c \in Range(Summarizes(r)) :
            c.op = "ProcessContentWithMode" =>
                \A prompt \in {c.content} :
                \A lines \in {{k \in DOMAIN prompt : prompt[k] = "Message "}},
                   blocks \in {{k \in DOMAIN prompt : prompt[k] = "\nURL: "}},
                   heads \in {{k \in DOMAIN prompt :
                                  prompt[k] = "Latest mention URL contents:\n"}},
                   question \in {Str("Last user question: ") \o Ev(r).text \o Str("\n")} :
                    /\ Cardinality(lines) = Len(thread)
                    /\ \A k \in lines :
                          \A n \in {Cardinality({j \in lines : j <= k})} :
                              \A line \in {MessageLine(n, thread[n])} :
                                  HasPrefixAt(prompt, k, line)
                    /\ \A u \in DOMAIN task[r].URLContents :
                          \A block \in {URLBlock(u, task[r].URLContents[u])} :
                              \E k \in blocks :
                                  /\ \A m \in lines \cup {0} : m < k
                                  /\ \A h \in heads : k < h
                                  /\ HasPrefixAt(prompt, k, block)
                    /\ \A f \in Range(LatestFetches(r)) :
                          \A block \in {URLBlock(f.url, f.val)} :
                              \E k \in blocks :
                                  /\ \E h \in heads : h < k
                                  /\ HasPrefixAt(prompt, k, block)
                    /\ HasPrefixAt(prompt, Len(prompt) - Len(question) + 1, question)

\* the prompt of a mention of one URL in a thread of two messages with three
\* different URLs, all fetched with content
C29_Witness ==
    \E r \in DOMAIN req :
        /\ Len(thread) = 2
        /\ Cardinality(DOMAIN task[r].URLContents) = 3
        /\ \A u \in DOMAIN task[r].URLContents : task[r].URLContents[u] = PageOf(u)
        /\ Len(LatestFetches(r)) = 1 /\ FetchSucceeded(LatestFetches(r)[1])
        /\ Len(Summarizes(r)) = 1
        /\ Summarizes(r)[1].op = "ProcessContentWithMode"

----------------------------------------------------------------------------
(* C30 *)

\* where the strings of urls lie in the text from position from on, each at
\* its first place after the one before it; 0 for one that does not occur
RECURSIVE Located(_, _, _)
Located(text, urls, from) ==
    IF urls = <<>> THEN <<>>
    ELSE LET at == {i \in from..Len(text) : HasPrefixAt(text, i, Head(urls))}
         IN  IF at = {} THEN <<0>>
             ELSE LET p == CHOOSE i \in at : \A j \in at : i <= j
                  IN  <<p>> \o Located(text, Tail(urls), p + Len(Head(urls)))

\* a URL can begin at position i of the text
StartsURL(t, i) ==
    \E p \in {HttpPrefix, HttpsPrefix, WwwPrefix} :
        HasPrefixAt(t, i, p) /\ i + Len(p) <= Len(t) /\ ~IsDelim(t[i + Len(p)])

\* C30: the URLs extracted from a text are substrings of it that lie one
\* after another, left to right, without overlap; each begins with "http://",
\* "https://" or "www."; and every place of the text where a URL can begin
\* lies inside one of them, so that a URL written twice is returned twice.
C30_ExtractionInOrderWithRepeats ==
    \A r \in DOMAIN req :
        task[r].path = "new" =>
            \A text \in {Ev(r).text}, urls \in {extractURLs(Ev(r).text)} :
            \A at \in {Located(text, urls, 1)} :
                /\ task[r].urls \in {<<>>, urls}
                /\ Len(at) = Len(urls)
                /\ \A j \in DOMAIN at : at[j] > 0
                /\ \A j \in DOMAIN urls :
                      \/ HasPrefixAt(urls[j], 1, HttpPrefix)
                      \/ HasPrefixAt(urls[j], 1, HttpsPrefix)
                      \/ HasPrefixAt(urls[j], 1, WwwPrefix)
                /\ \A i \in DOMAIN text :
                      StartsURL(text, i) =>
                          \E j \in DOMAIN urls : at[j] <= i /\ i < at[j] + Len(urls[j])

\* a text that names the same URL twice, with another between, gave three URLs
C30_Witness ==
    \E r \in DOMAIN req :
        /\ Ev(r).text = UrlA \o Str(" ") \o UrlB \o Str(" ") \o UrlA
        /\ task[r].urls = <<UrlA, UrlB, UrlA>>

----------------------------------------------------------------------------
(* C31 *)

\* C31: extracting the URLs of a text, writing them one after another with a
\* space between, and extracting again gives the same URLs in the same order.
C31_ExtractionIdempotent ==
    \A r \in DOMAIN req :
        task[r].path = "new" =>
            \A urls \in {extractURLs(Ev(r).text)} :
                extractURLs(Join(urls, Str(" "))) = urls

\* "http://www.b>": one URL with another inside it, cut out of a longer text
C31_Witness ==
    \E r \in DOMAIN req :
        /\ task[r].path = "new"
        /\ Ev(r).text = HttpPrefix \o UrlB \o Str(">")
        /\ task[r].urls = <<HttpPrefix \o UrlB>>
        /\ Join(task[r].urls, Str(" ")) # Ev(r).text

----------------------------------------------------------------------------
(* C32, C33, C34 *)

\* ProcessURL was called directly for r and has returned
Returned(r) == task[r].path = "direct" /\ task[r].pc = "returned"

\* C32: when the fetch gives content and the LLM answers, ProcessURL has made
\* one fetch of the caller's URL and one ProcessContent call, with the content
\* the fetch returned and the caller's prompt, both unchanged, and it returns
\* the LLM's answer with a nil error.
C32_SuccessPassesThrough ==
    \A r \in DOMAIN req :
        Returned(r) =>
            \A f \in {Fetches(r)}, sm \in {Summarizes(r)} :
                Len(f) = 1 /\ FetchSucceeded(f[1]) /\ Len(sm) = 1 /\ sm[1].err = NoErr =>
                    /\ f[1].url = req[r].url
                    /\ sm[1].op = "ProcessContent"
                    /\ sm[1].content = f[1].val
                    /\ sm[1].userPrompt = req[r].userPrompt
                    /\ task[r].response = sm[1].val
                    /\ task[r].err = NoErr

\* a call with the prompt "test prompt" returned the LLM's answer
C32_Witness ==
    \E r \in DOMAIN req :
        /\ Returned(r)
        /\ req[r].userPrompt = Str("test prompt")
        /\ Len(Summarizes(r)) = 1
        /\ Summarizes(r)[1].userPrompt = Str("test prompt")
        /\ task[r].response = Str("llm response") /\ task[r].err = NoErr

\* C33: after a fetch that returned an error, ProcessURL has returned, its
\* error wraps the error of the fetch, and the LLM has not been called.
C33_FetchErrorWrapped ==
    \A r \in DOMAIN req :
        task[r].path = "direct" =>
            \A k \in DOMAIN calls[r] :
                calls[r][k].op = "Fetch" /\ calls[r][k].err # NoErr =>
                    /\ Returned(r)
                    /\ Is(task[r].err, calls[r][k].err)
                    /\ task[r].err # calls[r][k].err
                    /\ Summarizes(r) = <<>>
                    /\ k = Len(calls[r])

\* a call on a context with a timeout returned the deadline error of its fetch
C33_Witness ==
    \E r \in DOMAIN req :
        /\ Returned(r)
        /\ Len(Fetches(r)) = 1
        /\ Fetches(r)[1].err = DeadlineExceeded(req[r].url)
        /\ Is(task[r].err, DeadlineExceeded(req[r].url))

\* C34: after a ProcessContent call that returned an error, ProcessURL has
\* returned the empty string with an error that wraps the error of the LLM.
C34_LLMErrorWrapped ==
    \A r \in DOMAIN req :
        task[r].path = "direct" =>
            \A k \in DOMAIN calls[r] :
                calls[r][k].op = "ProcessContent" /\ calls[r][k].err # NoErr =>
                    /\ Returned(r)
                    /\ task[r].response = <<>>
                    /\ Is(task[r].err, calls[r][k].err)
                    /\ k = Len(calls[r])

\* a call whose fetch gave content returned the error of the LLM, wrapped
C34_Witness ==
    \E r \in DOMAIN req :
        /\ Returned(r)
        /\ Len(Fetches(r)) = 1 /\ FetchSucceeded(Fetches(r)[1])
        /\ Len(Summarizes(r)) = 1 /\ Summarizes(r)[1].err = Str("llm failed")
        /\ task[r].err = <<"failed to process content: ", "llm failed">>

----------------------------------------------------------------------------
(* C35: the order of the calls of the New path *)

NewCalls(r) == IF task[r].path = "new" THEN calls[r] ELSE <<>>

IsUpdateOf(c, text) == c.op = "UpdateMessage" /\ c.text = text

AnyProcessing(c) == c.op = "UpdateMessage" /\ c.text # <<>> /\ c.text[1] = ":loading: Processing URL "

\* the call is the update "Processing URL i/n" of the i-th URL of the mention
IsProcessing(r, c, i) ==
    /\ i \in 1..Len(task[r].urls)
    /\ AnyProcessing(c)
    /\ Len(c.text) > 5
    /\ c.text[2] = ToString(i)
    /\ c.text[4] = ToString(Len(task[r].urls))
    /\ SubSeq(c.text, 6, Len(c.text)) = task[r].urls[i]

\* the positions of the "Processing URL" updates among the calls
ProcessingAt(cs) == {k \in 1..Len(cs) : AnyProcessing(cs[k])}

\* C35: in the New path the calls come in a fixed order: the update
\* "Processing URL i/n", the update "Fetching content" of the same URL, the
\* Fetcher call, the update "Generating summary" and the Summarizer call; the
\* j-th "Processing URL" update carries the index j of n, no index above n
\* appears, and a finished mention has the n of them and ends with the
\* update that carries the final report.
C35_UpdatesInOrder ==
    \A r \in Reqs : \A cs \in {NewCalls(r)} : \A at \in {ProcessingAt(cs)} :
        /\ \A k \in at :
             IsProcessing(r, cs[k], Cardinality({j \in at : j <= k}))
        /\ \A k \in 1..Len(cs) :
             /\ cs[k].op = "Fetch" =>
                  /\ k > 2
                  /\ IsUpdateOf(cs[k - 1], FetchingMsg(cs[k].url))
                  /\ k - 2 \in at
                  /\ \E i \in 1..Len(task[r].urls) :
                        /\ IsProcessing(r, cs[k - 2], i)
                        /\ task[r].urls[i] = cs[k].url
             /\ (cs[k].op = "UpdateMessage" /\ cs[k].text[1] = ":loading: Fetching content from ") =>
                  k - 1 \in at
             /\ cs[k].op = "ProcessContent" =>
                  /\ k > 4
                  /\ cs[k - 2].op = "Fetch"
                  /\ IsUpdateOf(cs[k - 1], GeneratingMsg(cs[k - 2].url))
                  /\ cs[k].content = cs[k - 2].val
             /\ (cs[k].op = "UpdateMessage" /\ cs[k].text[1] = ":loading: Generating summary for ") =>
                  k > 1 /\ cs[k - 1].op = "Fetch"
        /\ (task[r].pc = "done" /\ task[r].ts # 0) =>
             /\ Cardinality(at) = Len(task[r].urls)
             /\ IsUpdateOf(cs[Len(cs)], FinalReport(task[r].allSummaries))
             /\ \A k \in at : k < Len(cs)
             /\ \A k \in 1..Len(cs) : cs[k].op \in {"Fetch", "ProcessContent"} => k < Len(cs)

\* a finished mention of two URLs: the first summarized, the second with a
\* failed fetch, and the updates of both in the recorded calls
C35_Witness ==
    \E r \in Reqs :
        /\ task[r].path = "new"
        /\ task[r].pc = "done"
        /\ Len(task[r].urls) = 2
        /\ Cardinality(ProcessingAt(calls[r])) = 2
        /\ Len(Summarizes(r)) = 1
        /\ Len(Fetches(r)) = 2
        /\ IsUpdateOf(calls[r][Len(calls[r])], FinalReport(task[r].allSummaries))

----------------------------------------------------------------------------
(* C36: one fetch per occurrence of a URL *)

\* the URLs a mention was written with, one per occurrence, in the order written
Occurrences(text) == {us \in SeqsUpTo(URLPool, MaxURLs) : text = BotMention \o Spaced(us)}

FetchedURLs(r) == [k \in 1..Len(Fetches(r)) |-> Fetches(r)[k].url]

\* the successful Summarizer calls, each with the URL of the fetch before it
RECURSIVE SummariesOf(_, _)
SummariesOf(cs, k) ==
    IF k > Len(cs) THEN <<>>
    ELSE IF cs[k].op = "ProcessContent" /\ cs[k].err = NoErr
    THEN <<SummaryFor(cs[k - 2].url, cs[k].val)>> \o SummariesOf(cs, k + 1)
    ELSE SummariesOf(cs, k + 1)

\* C36: a finished New mention whose first post succeeded has fetched the URLs
\* of its text once per occurrence, in the order written (a URL written k
\* times is fetched k times, and summarized each time its fetch gave
\* content), and its final report joins the results in that order.
C36_FetchPerOccurrence ==
    \A r \in Reqs :
        (task[r].path = "new" /\ task[r].pc = "done" /\ task[r].ts # 0) =>
            \A us \in Occurrences(Ev(r).text) : \A cs \in {calls[r]} :
                /\ FetchedURLs(r) = us
                /\ \A k \in 1..Len(cs) :
                     (cs[k].op = "Fetch" /\ cs[k].err = NoErr /\ cs[k].val # <<>>) =>
                         /\ k + 2 <= Len(cs)
                         /\ cs[k + 2].op = "ProcessContent"
                         /\ cs[k + 2].content = cs[k].val
                /\ cs[Len(cs)].op = "UpdateMessage"
                /\ cs[Len(cs)].text = IF SummariesOf(cs, 1) = <<>> THEN NoSummariesMsg
                                      ELSE Join(SummariesOf(cs, 1), SummarySep)

\* a finished mention that names the same URL twice: two fetches and two
\* summaries of that URL, both in the final report
C36_Witness ==
    \E r \in Reqs :
        /\ task[r].path = "new"
        /\ task[r].pc = "done"
        /\ Ev(r).text = BotMention \o Spaced(<<UrlA, UrlA>>)
        /\ FetchedURLs(r) = <<UrlA, UrlA>>
        /\ Len(SummariesOf(calls[r], 1)) = 2
        /\ calls[r][Len(calls[r])].text = Join(SummariesOf(calls[r], 1), SummarySep)

----------------------------------------------------------------------------
(* C37: a failed first post ends the processing of the mention *)

\* the first call of the task is the post of the status message, and it failed
StatusPostFailed(r) ==
    /\ calls[r] # <<>>
    /\ calls[r][1].op = "PostMessage"
    /\ calls[r][1].text = LoadingMsg
    /\ calls[r][1].err # NoErr

\* C37: on both paths, when the post of the status message fails the task
\* ends there: the failed post stays its only call (no GetConversationReplies,
\* no Fetch, no Summarizer call, no UpdateMessage follows), the handler has
\* returned and no message of the task is in the channel.
C37_PostFailureStops ==
    \A r \in Reqs :
        StatusPostFailed(r) =>
            /\ Len(calls[r]) = 1
            /\ task[r].pc = "done"
            /\ task[r].path \in {"new", "thread"}
            /\ \A m \in 1..Len(slack) : slack[m].by # r

\* the failed status post of a New mention with a URL
C37_Witness ==
    \E r \in Reqs :
        /\ StatusPostFailed(r)
        /\ task[r].path = "new"
        /\ task[r].urls # <<>>
        /\ hpc[r] = "returned"

\* the failed status post of a mention in a thread
C37_WitnessThread ==
    \E r \in Reqs : StatusPostFailed(r) /\ task[r].path = "thread" /\ thread # <<>>

----------------------------------------------------------------------------
(* C38: a mention in a thread that names no URL *)

\* the mention of r is in a thread and its text is the bot's mention alone
BareThreadMention(r) ==
    /\ task[r].path = "thread"
    /\ Ev(r).text = BotMention

RepliesRetrieved(r) ==
    \E k \in 1..Len(calls[r]) :
        calls[r][k].op = "GetConversationReplies" /\ calls[r][k].err = NoErr

\* C38: a mention in a thread whose text has no URL never gets the report
\* "No URLs found"; once the thread history has been retrieved and the task
\* has finished, no URL of the mention was fetched, the Summarizer was called
\* exactly once, in mode "thread", as the call before last, and the last call
\* is the update that carries its response (or, when it failed, its error).
C38_NoURLsStillAnswered ==
    \A r \in Reqs :
        BareThreadMention(r) => \A cs \in {calls[r]} :
            /\ \A k \in 1..Len(cs) : cs[k].text # NoURLsMsg
            /\ (RepliesRetrieved(r) /\ task[r].pc = "done") =>
                 /\ task[r].urls = <<>>
                 /\ Len(Fetches(r)) = Len(task[r].URLs)
                 /\ Len(Summarizes(r)) = 1
                 /\ Len(cs) > 1
                 /\ cs[Len(cs) - 1] = Summarizes(r)[1]
                 /\ cs[Len(cs) - 1].op = "ProcessContentWithMode"
                 /\ cs[Len(cs) - 1].mode = "thread"
                 /\ cs[Len(cs)].op = "UpdateMessage"
                 /\ cs[Len(cs)].text =
                        IF cs[Len(cs) - 1].err = NoErr THEN cs[Len(cs) - 1].val
                        ELSE Str("Error processing thread mention: ")
                                 \o Str("failed to process thread content: ")
                                 \o cs[Len(cs) - 1].err

\* a finished mention without URLs in a thread that has messages: the
\* Summarizer answered in mode "thread" and the answer is the visible text
C38_Witness ==
    \E r \in Reqs :
        /\ BareThreadMention(r)
        /\ task[r].pc = "done"
        /\ thread # <<>>
        /\ Len(Summarizes(r)) = 1
        /\ Summarizes(r)[1].mode = "thread"
        /\ Summarizes(r)[1].err = NoErr
        /\ slack[task[r].ts].text = Summarizes(r)[1].val

----------------------------------------------------------------------------
(* C39: the order of the URL sections of the thread prompt *)

\* the prompt whose URL sections follow the first-seen order of the URLs: that
\* of ThreadContext.URLs, and that of the URLs of the latest mention
FirstSeenPrompt(r) ==
    buildThreadPrompt(task[r].Messages, task[r].URLContents, Ev(r).text,
                      task[r].latestURLContents, task[r].URLs,
                      CollectURLs(task[r].urls, {}))

\* C39: buildThreadPrompt is deterministic: the prompt given to the
\* Summarizer is the one prompt its inputs determine, with the URL content
\* sections in the first-seen order of the URLs of the ThreadContext.
C39_SectionsInFirstSeenOrder ==
    \A r \in Reqs : \A k \in 1..Len(calls[r]) :
        calls[r][k].op = "ProcessContentWithMode" =>
            \A p \in {FirstSeenPrompt(r)} : calls[r][k].content = p

====
